---- MODULE Spec2Model ----
(***************************************************************************)
(* Space Habitat Builder: the habitat store (HabitatContext reducer and    *)
(* its action creators), the module manager hook and the connection        *)
(* validator.                                                              *)
(*                                                                         *)
(* Numbers.  Lengths are carried in centimetres (2.1 m = 210), so every    *)
(* catalog coordinate is an integer.  A rotation component is an index     *)
(* into AngleTable, the angles whose cosine and sine are exact in fifths   *)
(* (0, pi/2, pi, -pi/2 and the 3-4-5 angles); cosines, sines and normals   *)
(* are carried in units of 1/NORMAL_UNIT.  Distances are carried as their  *)
(* squares: Math.sqrt is strictly monotone, so each comparison the code    *)
(* makes between distances is made here between the squares.               *)
(* Identifiers: uuidv4() is a counter (nextId); 0 is JavaScript's          *)
(* null/undefined.                                                         *)
(***************************************************************************)
EXTENDS Integers, Sequences, FiniteSets, TLC

NULL == 0

(***************************************************************************)
(* Bounds of the model                                                     *)
(***************************************************************************)
MaxModules == 2

MaxConnections == 2

MaxId == 2

(***************************************************************************)
(* data/moduleDefinitions                                                  *)
(***************************************************************************)
moduleDefinitions ==
  << [id |-> "central-hub",
      dimensions |-> [width |-> 420, height |-> 420, depth |-> 420],
      mass |-> 15000, crewCapacity |-> 0, powerConsumption |-> 500,
      powerGeneration |-> 0, cost |-> 25000000,
      connectionPoints |->
        << [id |-> "north", position |-> <<0, 0, 210>>,  normal |-> <<0, 0, 1>>,  type |-> "structural"],
           [id |-> "south", position |-> <<0, 0, -210>>, normal |-> <<0, 0, -1>>, type |-> "structural"],
           [id |-> "east",  position |-> <<210, 0, 0>>,  normal |-> <<1, 0, 0>>,  type |-> "structural"],
           [id |-> "west",  position |-> <<-210, 0, 0>>, normal |-> <<-1, 0, 0>>, type |-> "structural"],
           [id |-> "up",    position |-> <<0, 210, 0>>,  normal |-> <<0, 1, 0>>,  type |-> "structural"],
           [id |-> "down",  position |-> <<0, -210, 0>>, normal |-> <<0, -1, 0>>, type |-> "structural"] >>],
     [id |-> "living-quarters",
      dimensions |-> [width |-> 420, height |-> 420, depth |-> 850],
      mass |-> 12000, crewCapacity |-> 4, powerConsumption |-> 800,
      powerGeneration |-> 0, cost |-> 18000000,
      connectionPoints |->
        << [id |-> "front", position |-> <<0, 0, 425>>,  normal |-> <<0, 0, 1>>,  type |-> "structural"],
           [id |-> "back",  position |-> <<0, 0, -425>>, normal |-> <<0, 0, -1>>, type |-> "structural"] >>],
     [id |-> "laboratory",
      dimensions |-> [width |-> 420, height |-> 420, depth |-> 1070],
      mass |-> 14000, crewCapacity |-> 2, powerConsumption |-> 1500,
      powerGeneration |-> 0, cost |-> 35000000,
      connectionPoints |->
        << [id |-> "front",   position |-> <<0, 0, 535>>,  normal |-> <<0, 0, 1>>,  type |-> "structural"],
           [id |-> "back",    position |-> <<0, 0, -535>>, normal |-> <<0, 0, -1>>, type |-> "structural"],
           [id |-> "utility", position |-> <<210, 0, 0>>,  normal |-> <<1, 0, 0>>,  type |-> "utility"] >>],
     [id |-> "airlock",
      dimensions |-> [width |-> 420, height |-> 420, depth |-> 300],
      mass |-> 8000, crewCapacity |-> 2, powerConsumption |-> 300,
      powerGeneration |-> 0, cost |-> 12000000,
      connectionPoints |->
        << [id |-> "inner", position |-> <<0, 0, -150>>, normal |-> <<0, 0, -1>>, type |-> "structural"],
           [id |-> "outer", position |-> <<0, 0, 150>>,  normal |-> <<0, 0, 1>>,  type |-> "external"] >>],
     [id |-> "storage",
      dimensions |-> [width |-> 420, height |-> 420, depth |-> 600],
      mass |-> 5000, crewCapacity |-> 0, powerConsumption |-> 100,
      powerGeneration |-> 0, cost |-> 8000000,
      connectionPoints |->
        << [id |-> "front", position |-> <<0, 0, 300>>,  normal |-> <<0, 0, 1>>,  type |-> "structural"],
           [id |-> "back",  position |-> <<0, 0, -300>>, normal |-> <<0, 0, -1>>, type |-> "structural"] >>],
     [id |-> "recreation",
      dimensions |-> [width |-> 600, height |-> 600, depth |-> 800],
      mass |-> 10000, crewCapacity |-> 8, powerConsumption |-> 600,
      powerGeneration |-> 0, cost |-> 15000000,
      connectionPoints |->
        << [id |-> "front", position |-> <<0, 0, 400>>,  normal |-> <<0, 0, 1>>,  type |-> "structural"],
           [id |-> "back",  position |-> <<0, 0, -400>>, normal |-> <<0, 0, -1>>, type |-> "structural"] >>] >>

\* array.find(x => x.id === id) is defined
HasId(seq, id) ==
  \E i \in 1..Len(seq) : seq[i].id = id

\* array.find(x => x.id === id): the first match
FindId(seq, id) ==
  seq[CHOOSE k \in 1..Len(seq) :
        /\ seq[k].id = id
        /\ \A j \in 1..(k - 1) : seq[j].id # id]

\* moduleDefinitions.find(def => def.id === definitionId) is defined
HasDefinition(definitionId) == HasId(moduleDefinitions, definitionId)

\* moduleDefinitions.find(def => def.id === definitionId)
FindDefinition(definitionId) == FindId(moduleDefinitions, definitionId)

(***************************************************************************)
(* data/connectionTypes                                                    *)
(***************************************************************************)
connectionTypes == {"structural", "utility", "external"}

\* a variant of connectionRules whose table is symmetric
connectionRules_Symmetric(type) ==
  CASE type = "structural" -> {"structural", "utility"}
    [] type = "utility"    -> {"structural", "utility"}
    [] type = "external"   -> {}
    [] OTHER               -> {}

\* connectionRules[type] || []
connectionRules(type) ==
  CASE type = "structural" -> {"structural"}
    [] type = "utility"    -> {"structural", "utility"}
    [] type = "external"   -> {}
    [] OTHER               -> {}

MAX_CONNECTION_DISTANCE == 50

COLLISION_BUFFER == 20

GRID_SNAP == 10

NORMAL_UNIT == 5

\* <<cos, sin>> of the angle, in units of 1/NORMAL_UNIT
AngleTable ==
  << <<5, 0>>,     \* 1: 0
     <<4, 3>>,     \* 2: atan(3/4), about 36.87 degrees
     <<3, 4>>,     \* 3: atan(4/3), about 53.13 degrees
     <<0, 5>>,     \* 4: pi/2
     <<-5, 0>>,    \* 5: pi
     <<0, -5>> >>  \* 6: -pi/2

ANGLE_0 == 1

ANGLE_PI == 5

\* Math.cos, Math.sin
Cos(angle) == AngleTable[angle][1]

Sin(angle) == AngleTable[angle][2]

(***************************************************************************)
(* utils/connectionValidator                                               *)
(***************************************************************************)
\* the square of distance3D(point1, point2), in cm^2
distance3D(point1, point2) ==
  LET dx == point1[1] - point2[1]
      dy == point1[2] - point2[2]
      dz == point1[3] - point2[3]
  IN  dx * dx + dy * dy + dz * dz

dotProduct(vec1, vec2) ==
  vec1[1] * vec2[1] + vec1[2] * vec2[2] + vec1[3] * vec2[3]

\* floor of the square root
ISqrt(n) == CHOOSE r \in 0..n : r * r <= n /\ n < (r + 1) * (r + 1)

\* vector and result in units of 1/NORMAL_UNIT
normalize(vector) ==
  LET length == ISqrt(dotProduct(vector, vector))
  IN  IF length = 0 THEN <<0, 0, 0>>
      ELSE << (vector[1] * NORMAL_UNIT) \div length,
              (vector[2] * NORMAL_UNIT) \div length,
              (vector[3] * NORMAL_UNIT) \div length >>

\* a variant of transformPoint that turns by the X component of the rotation
transformPoint_ReadsX(localPoint, position, rotation) ==
  LET cos == Cos(rotation[1])
      sin == Sin(rotation[1])
      rotatedX == (localPoint[1] * cos - localPoint[3] * sin) \div NORMAL_UNIT
      rotatedY == localPoint[2]
      rotatedZ == (localPoint[1] * sin + localPoint[3] * cos) \div NORMAL_UNIT
  IN  << rotatedX + position[1], rotatedY + position[2], rotatedZ + position[3] >>

\* only rotation[1] of the code (the Y component, rotation[2] here) is read
transformPoint(localPoint, position, rotation) ==
  LET cos == Cos(rotation[2])
      sin == Sin(rotation[2])
      rotatedX == (localPoint[1] * cos - localPoint[3] * sin) \div NORMAL_UNIT
      rotatedY == localPoint[2]
      rotatedZ == (localPoint[1] * sin + localPoint[3] * cos) \div NORMAL_UNIT
  IN  << rotatedX + position[1], rotatedY + position[2], rotatedZ + position[3] >>

transformNormal(localNormal, rotation) ==
  LET cos == Cos(rotation[2])
      sin == Sin(rotation[2])
  IN  normalize(<< localNormal[1] * cos - localNormal[3] * sin,
                   localNormal[2] * NORMAL_UNIT,
                   localNormal[1] * sin + localNormal[3] * cos >>)

getWorldConnectionPoints(module) ==
  IF ~HasDefinition(module.definitionId) THEN << >>
  ELSE LET definition == FindDefinition(module.definitionId)
       IN  [ i \in 1..Len(definition.connectionPoints) |->
               LET point == definition.connectionPoints[i]
               IN  [ id |-> point.id,
                     position |-> point.position,
                     normal |-> point.normal,
                     type |-> point.type,
                     worldPosition |-> transformPoint(point.position, module.position, module.rotation),
                     worldNormal |-> transformNormal(point.normal, module.rotation),
                     moduleId |-> module.id ] ]

\* alignment > -0.7, alignment in units of 1/NORMAL_UNIT^2
AlignmentRejected(alignment) ==
  alignment * 10 > -7 * NORMAL_UNIT * NORMAL_UNIT

\* a variant of canConnect that rejects a pair at the maximum distance
canConnect_ExclusiveDistance(point1, point2) ==
  LET type1Rules == connectionRules(point1.type)
      dist == distance3D(point1.worldPosition, point2.worldPosition)
      alignment == dotProduct(point1.worldNormal, point2.worldNormal)
  IN  IF point2.type \notin type1Rules
        THEN [canConnect |-> FALSE, reason |-> "Incompatible connection types"]
      ELSE IF dist >= MAX_CONNECTION_DISTANCE * MAX_CONNECTION_DISTANCE
        THEN [canConnect |-> FALSE, reason |-> "Connection points too far apart"]
      ELSE IF AlignmentRejected(alignment)
        THEN [canConnect |-> FALSE, reason |-> "Connection points not properly aligned"]
      ELSE [canConnect |-> TRUE, reason |-> "Connection valid"]

\* a variant of canConnect that checks the alignment before the distance
canConnect_AlignmentFirst(point1, point2) ==
  LET type1Rules == connectionRules(point1.type)
      dist == distance3D(point1.worldPosition, point2.worldPosition)
      alignment == dotProduct(point1.worldNormal, point2.worldNormal)
  IN  IF point2.type \notin type1Rules
        THEN [canConnect |-> FALSE, reason |-> "Incompatible connection types"]
      ELSE IF AlignmentRejected(alignment)
        THEN [canConnect |-> FALSE, reason |-> "Connection points not properly aligned"]
      ELSE IF dist > MAX_CONNECTION_DISTANCE * MAX_CONNECTION_DISTANCE
        THEN [canConnect |-> FALSE, reason |-> "Connection points too far apart"]
      ELSE [canConnect |-> TRUE, reason |-> "Connection valid"]

canConnect(point1, point2) ==
  LET type1Rules == connectionRules(point1.type)
      dist == distance3D(point1.worldPosition, point2.worldPosition)
      alignment == dotProduct(point1.worldNormal, point2.worldNormal)
  IN  IF point2.type \notin type1Rules
        THEN [canConnect |-> FALSE, reason |-> "Incompatible connection types"]
      ELSE IF dist > MAX_CONNECTION_DISTANCE * MAX_CONNECTION_DISTANCE
        THEN [canConnect |-> FALSE, reason |-> "Connection points too far apart"]
      ELSE IF AlignmentRejected(alignment)
        THEN [canConnect |-> FALSE, reason |-> "Connection points not properly aligned"]
      ELSE [canConnect |-> TRUE, reason |-> "Connection valid"]

Abs(x) == IF x < 0 THEN -x ELSE x

\* a variant of checkModuleCollision for which an overlap on one axis is enough
checkModuleCollision_AnyAxis(module1, module2) ==
  IF ~HasDefinition(module1.definitionId) \/ ~HasDefinition(module2.definitionId)
    THEN FALSE
  ELSE LET pos1 == module1.position
           pos2 == module2.position
           dim1 == FindDefinition(module1.definitionId).dimensions
           dim2 == FindDefinition(module2.definitionId).dimensions
           buffer == COLLISION_BUFFER
           overlapX == 2 * Abs(pos1[1] - pos2[1]) < (dim1.width + dim2.width) + 2 * buffer
           overlapY == 2 * Abs(pos1[2] - pos2[2]) < (dim1.height + dim2.height) + 2 * buffer
           overlapZ == 2 * Abs(pos1[3] - pos2[3]) < (dim1.depth + dim2.depth) + 2 * buffer
       IN  overlapX \/ overlapY \/ overlapZ

\* a variant of checkModuleCollision without the collision buffer
checkModuleCollision_NoBuffer(module1, module2) ==
  IF ~HasDefinition(module1.definitionId) \/ ~HasDefinition(module2.definitionId)
    THEN FALSE
  ELSE LET pos1 == module1.position
           pos2 == module2.position
           dim1 == FindDefinition(module1.definitionId).dimensions
           dim2 == FindDefinition(module2.definitionId).dimensions
           overlapX == 2 * Abs(pos1[1] - pos2[1]) < (dim1.width + dim2.width)
           overlapY == 2 * Abs(pos1[2] - pos2[2]) < (dim1.height + dim2.height)
           overlapZ == 2 * Abs(pos1[3] - pos2[3]) < (dim1.depth + dim2.depth)
       IN  overlapX /\ overlapY /\ overlapZ

\* both sides of each comparison are doubled to keep the halves integral
checkModuleCollision(module1, module2) ==
  IF ~HasDefinition(module1.definitionId) \/ ~HasDefinition(module2.definitionId)
    THEN FALSE
  ELSE LET pos1 == module1.position
           pos2 == module2.position
           dim1 == FindDefinition(module1.definitionId).dimensions
           dim2 == FindDefinition(module2.definitionId).dimensions
           buffer == COLLISION_BUFFER
           overlapX == 2 * Abs(pos1[1] - pos2[1]) < (dim1.width + dim2.width) + 2 * buffer
           overlapY == 2 * Abs(pos1[2] - pos2[2]) < (dim1.height + dim2.height) + 2 * buffer
           overlapZ == 2 * Abs(pos1[3] - pos2[3]) < (dim1.depth + dim2.depth) + 2 * buffer
       IN  overlapX /\ overlapY /\ overlapZ

\* Math.round(x / gridSize) * gridSize; Math.round rounds halves up
RoundToGrid(coord, gridSize) ==
  ((2 * coord + gridSize) \div (2 * gridSize)) * gridSize

snapToGrid(position, gridSize) ==
  [ i \in 1..Len(position) |-> RoundToGrid(position[i], gridSize) ]

\* findPotentialConnections, the two inner forEach loops: the entries pushed
\* for one existing module, from the pair (p, q) of point indices onwards
RECURSIVE PotentialOfModule(_, _, _, _, _)
PotentialOfModule(targetPoints, existingModule, existingPoints, p, q) ==
  IF p > Len(targetPoints) THEN << >>
  ELSE IF q > Len(existingPoints)
    THEN PotentialOfModule(targetPoints, existingModule, existingPoints, p + 1, 1)
  ELSE ( IF canConnect(targetPoints[p], existingPoints[q]).canConnect
           THEN << [ targetPoint |-> targetPoints[p],
                     existingPoint |-> existingPoints[q],
                     existingModule |-> existingModule,
                     distance |-> distance3D(targetPoints[p].worldPosition,
                                             existingPoints[q].worldPosition) ] >>
           ELSE << >> )
       \o PotentialOfModule(targetPoints, existingModule, existingPoints, p, q + 1)

\* findPotentialConnections, existingModules.forEach from module k onwards
RECURSIVE PotentialConnections(_, _, _, _)
PotentialConnections(targetId, targetPoints, existingModules, k) ==
  IF k > Len(existingModules) THEN << >>
  ELSE ( IF existingModules[k].id = targetId THEN << >>
         ELSE PotentialOfModule(targetPoints, existingModules[k],
                                getWorldConnectionPoints(existingModules[k]), 1, 1) )
       \o PotentialConnections(targetId, targetPoints, existingModules, k + 1)

\* Array.prototype.sort((a, b) => a.distance - b.distance), which is stable:
\* the entry goes behind the entries that are not farther
InsertByDistance(sorted, entry) ==
  LET before == Cardinality({ i \in 1..Len(sorted) : sorted[i].distance <= entry.distance })
  IN  SubSeq(sorted, 1, before) \o << entry >> \o SubSeq(sorted, before + 1, Len(sorted))

RECURSIVE SortByDistance(_, _)
SortByDistance(entries, k) ==
  IF k = 0 THEN << >>
  ELSE InsertByDistance(SortByDistance(entries, k - 1), entries[k])

\* a variant of findPotentialConnections that returns the entries as found
findPotentialConnections_Unsorted(targetModule, targetPosition, existingModules) ==
  LET tempModule == [ targetModule EXCEPT !.position = targetPosition ]
      targetPoints == getWorldConnectionPoints(tempModule)
  IN  PotentialConnections(targetModule.id, targetPoints, existingModules, 1)

findPotentialConnections(targetModule, targetPosition, existingModules) ==
  LET tempModule == [ targetModule EXCEPT !.position = targetPosition ]
      targetPoints == getWorldConnectionPoints(tempModule)
      potentialConnections == PotentialConnections(targetModule.id, targetPoints,
                                                   existingModules, 1)
  IN  SortByDistance(potentialConnections, Len(potentialConnections))

\* modules.find(m => m.id === moduleId) is defined
HasModule(modules, moduleId) == HasId(modules, moduleId)

\* modules.find(m => m.id === moduleId)
FindModule(modules, moduleId) == FindId(modules, moduleId)

\* points.find(p => p.id === pointId) is defined
HasPoint(points, pointId) == HasId(points, pointId)

\* points.find(p => p.id === pointId)
FindPoint(points, pointId) == FindId(points, pointId)

\* validateHabitat, first loop: the errors pushed from pair (i, j) onwards
RECURSIVE CollisionErrors(_, _, _)
CollisionErrors(modules, i, j) ==
  IF i > Len(modules) THEN << >>
  ELSE IF j > Len(modules) THEN CollisionErrors(modules, i + 1, i + 2)
  ELSE ( IF checkModuleCollision(modules[i], modules[j])
           THEN << [ type |-> "collision",
                     message |-> "are colliding",
                     moduleIds |-> << modules[i].id, modules[j].id >> ] >>
           ELSE << >> )
       \o CollisionErrors(modules, i, j + 1)

\* a variant of ConnectionErrors that skips a connection whose module is gone
ConnectionErrors_SkipsMissingModule(modules, connection) ==
  IF ~HasModule(modules, connection.moduleId1) \/ ~HasModule(modules, connection.moduleId2)
    THEN << >>
  ELSE LET points1 == getWorldConnectionPoints(FindModule(modules, connection.moduleId1))
           points2 == getWorldConnectionPoints(FindModule(modules, connection.moduleId2))
       IN  IF ~HasPoint(points1, connection.pointId1) \/ ~HasPoint(points2, connection.pointId2)
             THEN << [ type |-> "invalid_connection_point",
                       message |-> "Connection references invalid connection point",
                       connectionId |-> connection.id ] >>
           ELSE LET validation == canConnect(FindPoint(points1, connection.pointId1),
                                             FindPoint(points2, connection.pointId2))
                IN  IF ~validation.canConnect
                      THEN << [ type |-> "invalid_connection",
                                message |-> validation.reason,
                                connectionId |-> connection.id ] >>
                      ELSE << >>

\* a variant of ConnectionErrors that goes on to the point check after a
\* missing module
ConnectionErrors_NoReturn(modules, connection) ==
  ( IF ~HasModule(modules, connection.moduleId1) \/ ~HasModule(modules, connection.moduleId2)
      THEN << [ type |-> "invalid_connection",
                message |-> "Connection references non-existent module",
                connectionId |-> connection.id ] >>
      ELSE << >> )
  \o ( LET points1 == IF HasModule(modules, connection.moduleId1)
                         THEN getWorldConnectionPoints(FindModule(modules, connection.moduleId1))
                         ELSE << >>
            points2 == IF HasModule(modules, connection.moduleId2)
                         THEN getWorldConnectionPoints(FindModule(modules, connection.moduleId2))
                         ELSE << >>
        IN  IF ~HasPoint(points1, connection.pointId1) \/ ~HasPoint(points2, connection.pointId2)
              THEN << [ type |-> "invalid_connection_point",
                        message |-> "Connection references invalid connection point",
                        connectionId |-> connection.id ] >>
            ELSE LET validation == canConnect(FindPoint(points1, connection.pointId1),
                                              FindPoint(points2, connection.pointId2))
                 IN  IF ~validation.canConnect
                       THEN << [ type |-> "invalid_connection",
                                 message |-> validation.reason,
                                 connectionId |-> connection.id ] >>
                       ELSE << >> )

\* validateHabitat, body of connections.forEach: the errors pushed for one connection
ConnectionErrors(modules, connection) ==
  IF ~HasModule(modules, connection.moduleId1) \/ ~HasModule(modules, connection.moduleId2)
    THEN << [ type |-> "invalid_connection",
              message |-> "Connection references non-existent module",
              connectionId |-> connection.id ] >>
  ELSE LET module1 == FindModule(modules, connection.moduleId1)
           module2 == FindModule(modules, connection.moduleId2)
           points1 == getWorldConnectionPoints(module1)
           points2 == getWorldConnectionPoints(module2)
       IN  IF ~HasPoint(points1, connection.pointId1) \/ ~HasPoint(points2, connection.pointId2)
             THEN << [ type |-> "invalid_connection_point",
                       message |-> "Connection references invalid connection point",
                       connectionId |-> connection.id ] >>
           ELSE LET point1 == FindPoint(points1, connection.pointId1)
                    point2 == FindPoint(points2, connection.pointId2)
                    validation == canConnect(point1, point2)
                IN  IF ~validation.canConnect
                      THEN << [ type |-> "invalid_connection",
                                message |-> validation.reason,
                                connectionId |-> connection.id ] >>
                      ELSE << >>

\* validateHabitat, second loop, from connection k onwards
RECURSIVE AllConnectionErrors(_, _, _)
AllConnectionErrors(modules, connections, k) ==
  IF k > Len(connections) THEN << >>
  ELSE ConnectionErrors(modules, connections[k])
       \o AllConnectionErrors(modules, connections, k + 1)

\* validateHabitat, connections.forEach inside the walk: the ids pushed on
\* toVisit for currentId, from connection k onwards
RECURSIVE Pushed(_, _, _, _)
Pushed(connections, connected, currentId, k) ==
  IF k > Len(connections) THEN << >>
  ELSE LET connection == connections[k]
       IN  ( IF connection.moduleId1 = currentId /\ connection.moduleId2 \notin connected
               THEN << connection.moduleId2 >>
             ELSE IF connection.moduleId2 = currentId /\ connection.moduleId1 \notin connected
               THEN << connection.moduleId1 >>
             ELSE << >> )
           \o Pushed(connections, connected, currentId, k + 1)

\* validateHabitat, while (toVisit.length > 0): the final connected set
RECURSIVE Walk(_, _, _)
Walk(connections, connected, toVisit) ==
  IF Len(toVisit) = 0 THEN connected
  ELSE LET currentId == toVisit[Len(toVisit)]
           rest == SubSeq(toVisit, 1, Len(toVisit) - 1)
       IN  IF currentId \in connected THEN Walk(connections, connected, rest)
           ELSE Walk(connections, connected \cup {currentId},
                     rest \o Pushed(connections, connected \cup {currentId}, currentId, 1))

\* a variant of ConnectivityWarnings that runs for a single module and does
\* not count the module the walk starts from
ConnectivityWarnings_StartNotCounted(modules, connections) ==
  IF Len(modules) > 0
    THEN LET connected == Walk(connections, {}, << modules[1].id >>) \ { modules[1].id }
         IN  IF Cardinality(connected) < Len(modules)
               THEN << [ type |-> "disconnected_modules",
                         message |-> Len(modules) - Cardinality(connected),
                         severity |-> "warning" ] >>
               ELSE << >>
    ELSE << >>

\* validateHabitat, third part: the warnings
ConnectivityWarnings(modules, connections) ==
  IF Len(modules) > 1
    THEN LET connected == Walk(connections, {}, << modules[1].id >>)
         IN  IF Cardinality(connected) < Len(modules)
               THEN << [ type |-> "disconnected_modules",
                         message |-> Len(modules) - Cardinality(connected),
                         severity |-> "warning" ] >>
               ELSE << >>
    ELSE << >>

validateHabitat(modules, connections) ==
  LET errors == CollisionErrors(modules, 1, 2)
                  \o AllConnectionErrors(modules, connections, 1)
      warnings == ConnectivityWarnings(modules, connections)
  IN  [ errors |-> errors, warnings |-> warnings, isValid |-> Len(errors) = 0 ]

(***************************************************************************)
(* contexts/HabitatContext                                                 *)
(***************************************************************************)
\* modules.reduce over modules[k..]
RECURSIVE ReduceStatistics(_, _, _)
ReduceStatistics(modules, k, acc) ==
  IF k > Len(modules) THEN acc
  ELSE IF HasDefinition(modules[k].definitionId)
    THEN LET definition == FindDefinition(modules[k].definitionId)
         IN  ReduceStatistics(modules, k + 1,
               [ totalMass |-> acc.totalMass + definition.mass,
                 totalCrewCapacity |-> acc.totalCrewCapacity + definition.crewCapacity,
                 totalPowerConsumption |-> acc.totalPowerConsumption + definition.powerConsumption,
                 totalPowerGeneration |-> acc.totalPowerGeneration + definition.powerGeneration,
                 totalCost |-> acc.totalCost + definition.cost ])
  ELSE ReduceStatistics(modules, k + 1, acc)

calculateStatistics(modules) ==
  LET stats == ReduceStatistics(modules, 1,
                 [ totalMass |-> 0, totalCrewCapacity |-> 0, totalPowerConsumption |-> 0,
                   totalPowerGeneration |-> 0, totalCost |-> 0 ])
  IN  [ totalMass |-> stats.totalMass,
        totalCrewCapacity |-> stats.totalCrewCapacity,
        totalPowerConsumption |-> stats.totalPowerConsumption,
        totalPowerGeneration |-> stats.totalPowerGeneration,
        totalCost |-> stats.totalCost,
        totalModules |-> Len(modules),
        powerBalance |-> stats.totalPowerGeneration - stats.totalPowerConsumption ]

initialState ==
  [ modules |-> << >>,
    selectedModuleId |-> NULL,
    connections |-> << >>,
    validationErrors |-> << >>,
    statistics |-> [ totalModules |-> 0, totalMass |-> 0, totalCrewCapacity |-> 0,
                     totalPowerConsumption |-> 0, totalPowerGeneration |-> 0,
                     powerBalance |-> 0, totalCost |-> 0 ] ]

\* a variant of ReduceADD_MODULE that computes the statistics of the old list
ReduceADD_MODULE_OldList(st, payload) ==
  [ st EXCEPT !.modules = Append(st.modules, payload),
              !.statistics = calculateStatistics(st.modules) ]

ReduceADD_MODULE(st, payload) ==
  LET newModules == Append(st.modules, payload)
  IN  [ st EXCEPT !.modules = newModules,
                  !.statistics = calculateStatistics(newModules) ]

\* a variant of ReduceREMOVE_MODULE that keeps the old statistics
ReduceREMOVE_MODULE_StaleStatistics(st, payload) ==
  LET Keep(module) == module.id # payload
  IN  [ st EXCEPT !.modules = SelectSeq(st.modules, Keep),
                  !.selectedModuleId = IF st.selectedModuleId = payload THEN NULL
                                       ELSE st.selectedModuleId ]

\* a variant of ReduceREMOVE_MODULE that also drops the connections of the module
ReduceREMOVE_MODULE_Cascade(st, payload) ==
  LET Keep(module) == module.id # payload
      KeepConnection(conn) == conn.moduleId1 # payload /\ conn.moduleId2 # payload
      filteredModules == SelectSeq(st.modules, Keep)
  IN  [ st EXCEPT !.modules = filteredModules,
                  !.connections = SelectSeq(st.connections, KeepConnection),
                  !.selectedModuleId = IF st.selectedModuleId = payload THEN NULL
                                       ELSE st.selectedModuleId,
                  !.statistics = calculateStatistics(filteredModules) ]

\* a variant of ReduceREMOVE_MODULE that always clears the selection
ReduceREMOVE_MODULE_Deselects(st, payload) ==
  LET Keep(module) == module.id # payload
      filteredModules == SelectSeq(st.modules, Keep)
  IN  [ st EXCEPT !.modules = filteredModules,
                  !.selectedModuleId = NULL,
                  !.statistics = calculateStatistics(filteredModules) ]

\* a variant of ReduceREMOVE_MODULE that leaves the selection as it is
ReduceREMOVE_MODULE_KeepsSelection(st, payload) ==
  LET Keep(module) == module.id # payload
      filteredModules == SelectSeq(st.modules, Keep)
  IN  [ st EXCEPT !.modules = filteredModules,
                  !.statistics = calculateStatistics(filteredModules) ]

ReduceREMOVE_MODULE(st, payload) ==
  LET Keep(module) == module.id # payload
      filteredModules == SelectSeq(st.modules, Keep)
  IN  [ st EXCEPT !.modules = filteredModules,
                  !.selectedModuleId = IF st.selectedModuleId = payload THEN NULL
                                       ELSE st.selectedModuleId,
                  !.statistics = calculateStatistics(filteredModules) ]

\* a variant of ReduceUPDATE_MODULE that puts the updated module last
ReduceUPDATE_MODULE_MovesToEnd(st, payload) ==
  LET Other(module) == module.id # payload.id
      Target(module) == module.id = payload.id
      updated == SelectSeq(st.modules, Target)
      updatedModules == SelectSeq(st.modules, Other)
                          \o [ i \in 1..Len(updated) |-> payload.updates @@ updated[i] ]
  IN  [ st EXCEPT !.modules = updatedModules,
                  !.statistics = calculateStatistics(updatedModules) ]

\* { ...module, ...action.payload.updates }
ReduceUPDATE_MODULE(st, payload) ==
  LET updatedModules == [ i \in 1..Len(st.modules) |->
                            IF st.modules[i].id = payload.id
                              THEN payload.updates @@ st.modules[i]
                              ELSE st.modules[i] ]
  IN  [ st EXCEPT !.modules = updatedModules,
                  !.statistics = calculateStatistics(updatedModules) ]

ReduceSELECT_MODULE(st, payload) ==
  [ st EXCEPT !.selectedModuleId = payload ]

ReduceDESELECT_MODULE(st) ==
  [ st EXCEPT !.selectedModuleId = NULL ]

ReduceSET_MODULES(st, payload) ==
  [ st EXCEPT !.modules = payload,
              !.statistics = calculateStatistics(payload) ]

ReduceADD_CONNECTION(st, payload) ==
  [ st EXCEPT !.connections = Append(st.connections, payload) ]

ReduceREMOVE_CONNECTION(st, payload) ==
  LET Keep(conn) == conn.id # payload
  IN  [ st EXCEPT !.connections = SelectSeq(st.connections, Keep) ]

ReduceSET_VALIDATION_ERRORS(st, payload) ==
  [ st EXCEPT !.validationErrors = payload ]

ReduceCLEAR_VALIDATION_ERRORS(st) ==
  [ st EXCEPT !.validationErrors = << >> ]

\* action.payload.modules || [], action.payload.connections || []
ReduceLOAD_CONFIGURATION(st, payload) ==
  LET configModules == IF "modules" \in DOMAIN payload THEN payload.modules ELSE << >>
  IN  [ st EXCEPT !.modules = configModules,
                  !.selectedModuleId = NULL,
                  !.connections = IF "connections" \in DOMAIN payload
                                    THEN payload.connections ELSE << >>,
                  !.validationErrors = << >>,
                  !.statistics = calculateStatistics(configModules) ]

ReduceRESET_HABITAT(st) ==
  [ initialState EXCEPT !.statistics = calculateStatistics(<< >>) ]

habitatReducer(st, action) ==
  CASE action.type = "ADD_MODULE" -> ReduceADD_MODULE(st, action.payload)
    [] action.type = "REMOVE_MODULE" -> ReduceREMOVE_MODULE(st, action.payload)
    [] action.type = "UPDATE_MODULE" -> ReduceUPDATE_MODULE(st, action.payload)
    [] action.type = "SELECT_MODULE" -> ReduceSELECT_MODULE(st, action.payload)
    [] action.type = "DESELECT_MODULE" -> ReduceDESELECT_MODULE(st)
    [] action.type = "SET_MODULES" -> ReduceSET_MODULES(st, action.payload)
    [] action.type = "ADD_CONNECTION" -> ReduceADD_CONNECTION(st, action.payload)
    [] action.type = "REMOVE_CONNECTION" -> ReduceREMOVE_CONNECTION(st, action.payload)
    [] action.type = "SET_VALIDATION_ERRORS" -> ReduceSET_VALIDATION_ERRORS(st, action.payload)
    [] action.type = "CLEAR_VALIDATION_ERRORS" -> ReduceCLEAR_VALIDATION_ERRORS(st)
    [] action.type = "LOAD_CONFIGURATION" -> ReduceLOAD_CONFIGURATION(st, action.payload)
    [] action.type = "RESET_HABITAT" -> ReduceRESET_HABITAT(st)
    [] OTHER -> st

(***************************************************************************)
(* data/moduleDefinitions, sampleConfigurations: the ids 'hub-1', 'lab-1', *)
(* 'quarters-1' and 'airlock-1' are 101..104; the sample has no            *)
(* connections key.                                                        *)
(***************************************************************************)
MarsResearchStation ==
  [ modules |->
      << [id |-> 101, definitionId |-> "central-hub",     position |-> <<0, 0, 0>>,    rotation |-> <<1, 1, 1>>],
         [id |-> 102, definitionId |-> "laboratory",      position |-> <<0, 0, 935>>,  rotation |-> <<1, 1, 1>>],
         [id |-> 103, definitionId |-> "living-quarters", position |-> <<630, 0, 0>>,  rotation |-> <<1, 4, 1>>],
         [id |-> 104, definitionId |-> "airlock",         position |-> <<-360, 0, 0>>, rotation |-> <<1, 6, 1>>] >> ]

(***************************************************************************)
(* The running application.                                                *)
(*   state          the reducer state of HabitatProvider                   *)
(*   nextId         the next value of uuidv4()                             *)
(*   effectPending  the auto-validate effect of useConnectionValidator is  *)
(*                  scheduled and has not run yet                          *)
(*   lastOp         the last operation called, its arguments and result    *)
(*   pre            selection, statistics and number of connections before *)
(*                  the last operation                                     *)
(*   roundTrip      the id returned by the last addModule and the          *)
(*                  statistics before it, kept while nothing but the       *)
(*                  removal of that module follows                         *)
(*   cc             two free-standing modules, and the arguments and the   *)
(*                  result of the last canConnect call on two of their     *)
(*                  world connection points                                *)
(***************************************************************************)
VARIABLES state, nextId, effectPending, lastOp, pre, roundTrip, cc

vars == << state, nextId, effectPending, lastOp, pre, roundTrip, cc >>

NoRoundTrip == [ id |-> NULL, statistics |-> initialState.statistics ]

NoPoint == [ id |-> "", position |-> <<0, 0, 0>>, normal |-> <<0, 0, 0>>, type |-> "",
             worldPosition |-> <<0, 0, 0>>, worldNormal |-> <<0, 0, 0>>, moduleId |-> NULL ]

NoModule == [ id |-> NULL, definitionId |-> "", position |-> <<0, 0, 0>>,
              rotation |-> <<ANGLE_0, ANGLE_0, ANGLE_0>> ]

NoCall == [ moduleA |-> NoModule, moduleB |-> NoModule, point1 |-> NoPoint, point2 |-> NoPoint,
            called |-> FALSE, result |-> [canConnect |-> FALSE, reason |-> ""] ]

Snapshot == [ selectedModuleId |-> state.selectedModuleId,
              statistics |-> state.statistics,
              totalConnections |-> Len(state.connections) ]

Init ==
  /\ state = initialState
  /\ nextId = 1
  /\ effectPending = FALSE
  /\ lastOp = [ op |-> "mount", args |-> << >>, ret |-> NULL ]
  /\ pre = [ selectedModuleId |-> NULL, statistics |-> initialState.statistics,
             totalConnections |-> 0 ]
  /\ roundTrip = NoRoundTrip
  /\ cc = NoCall

\* what every operation of the habitat records about itself
Called(op, args, ret) ==
  /\ lastOp' = [ op |-> op, args |-> args, ret |-> ret ]
  /\ pre' = Snapshot
  /\ cc' = cc

\* a variant of AddModuleState that does not look the definition up
AddModuleState_NoLookup(st, id, definitionId, position, rotation) ==
  habitatReducer(st, [ type |-> "ADD_MODULE",
                       payload |-> [ id |-> id, definitionId |-> definitionId,
                                     position |-> position, rotation |-> rotation ] ])

\* HabitatProvider.addModule: the state after the call
AddModuleState(st, id, definitionId, position, rotation) ==
  IF ~HasDefinition(definitionId) THEN st
  ELSE habitatReducer(st, [ type |-> "ADD_MODULE",
                            payload |-> [ id |-> id, definitionId |-> definitionId,
                                          position |-> position, rotation |-> rotation ] ])

\* HabitatProvider.addModule: the value returned
AddModuleResult(id, definitionId) ==
  IF ~HasDefinition(definitionId) THEN NULL ELSE id

\* the bound on the ids and on the module list allows one more module
CanGrow(definitionId) ==
  HasDefinition(definitionId) => (nextId <= MaxId /\ Len(state.modules) < MaxModules)

AddModule(definitionId, position, rotation) ==
  /\ ~effectPending
  /\ CanGrow(definitionId)
  /\ state' = AddModuleState(state, nextId, definitionId, position, rotation)
  /\ nextId' = IF HasDefinition(definitionId) THEN nextId + 1 ELSE nextId
  /\ effectPending' = HasDefinition(definitionId)
  /\ roundTrip' = IF HasDefinition(definitionId)
                    THEN [ id |-> nextId, statistics |-> state.statistics ]
                    ELSE NoRoundTrip
  /\ Called("addModule", << definitionId, position, rotation >>,
            AddModuleResult(nextId, definitionId))

\* useModuleManager.addModuleAtPosition with snapToGridEnabled = true
AddModuleAtPositionState(st, id, definitionId, position) ==
  LET finalPosition == snapToGrid(position, 50)
      moduleId == AddModuleResult(id, definitionId)
      added == AddModuleState(st, id, definitionId, finalPosition, <<ANGLE_0, ANGLE_0, ANGLE_0>>)
  IN  IF moduleId # NULL
        THEN habitatReducer(added, [ type |-> "SELECT_MODULE", payload |-> moduleId ])
        ELSE added

AddModuleAtPosition(definitionId, position) ==
  /\ ~effectPending
  /\ CanGrow(definitionId)
  /\ state' = AddModuleAtPositionState(state, nextId, definitionId, position)
  /\ nextId' = IF HasDefinition(definitionId) THEN nextId + 1 ELSE nextId
  /\ effectPending' = HasDefinition(definitionId)
  /\ roundTrip' = IF HasDefinition(definitionId)
                    THEN [ id |-> nextId, statistics |-> state.statistics ]
                    ELSE NoRoundTrip
  /\ Called("addModuleAtPosition", << definitionId, position >>,
            AddModuleResult(nextId, definitionId))

RemoveModule(moduleId) ==
  /\ ~effectPending
  /\ state' = habitatReducer(state, [ type |-> "REMOVE_MODULE", payload |-> moduleId ])
  /\ nextId' = nextId
  /\ effectPending' = TRUE
  /\ roundTrip' = IF roundTrip.id = moduleId THEN roundTrip ELSE NoRoundTrip
  /\ Called("removeModule", << moduleId >>, NULL)

\* useModuleManager.deleteSelectedModule: removeModule, then deselectModule
DeleteSelectedModule ==
  /\ ~effectPending
  /\ state' = IF state.selectedModuleId # NULL
                THEN habitatReducer(
                       habitatReducer(state, [ type |-> "REMOVE_MODULE",
                                               payload |-> state.selectedModuleId ]),
                       [ type |-> "DESELECT_MODULE" ])
                ELSE state
  /\ nextId' = nextId
  /\ effectPending' = (state.selectedModuleId # NULL)
  /\ roundTrip' = IF roundTrip.id = state.selectedModuleId THEN roundTrip ELSE NoRoundTrip
  /\ Called("deleteSelectedModule", << state.selectedModuleId >>, NULL)

\* useModuleManager.moveModule with snapToGridEnabled = true
MoveModule(moduleId, newPosition) ==
  /\ ~effectPending
  /\ state' = habitatReducer(state,
                [ type |-> "UPDATE_MODULE",
                  payload |-> [ id |-> moduleId,
                                updates |-> [ position |-> snapToGrid(newPosition, 10) ] ] ])
  /\ nextId' = nextId
  /\ effectPending' = TRUE
  /\ roundTrip' = NoRoundTrip
  /\ Called("moveModule", << moduleId, newPosition >>, NULL)

RotateModule(moduleId, rotation) ==
  /\ ~effectPending
  /\ state' = habitatReducer(state,
                [ type |-> "UPDATE_MODULE",
                  payload |-> [ id |-> moduleId, updates |-> [ rotation |-> rotation ] ] ])
  /\ nextId' = nextId
  /\ effectPending' = TRUE
  /\ roundTrip' = NoRoundTrip
  /\ Called("rotateModule", << moduleId, rotation >>, NULL)

SelectModule(moduleId) ==
  /\ ~effectPending
  /\ state' = habitatReducer(state, [ type |-> "SELECT_MODULE", payload |-> moduleId ])
  /\ UNCHANGED << nextId, effectPending >>
  /\ roundTrip' = NoRoundTrip
  /\ Called("selectModule", << moduleId >>, NULL)

DeselectModule ==
  /\ ~effectPending
  /\ state' = habitatReducer(state, [ type |-> "DESELECT_MODULE" ])
  /\ UNCHANGED << nextId, effectPending >>
  /\ roundTrip' = NoRoundTrip
  /\ Called("deselectModule", << >>, NULL)

\* dispatch of SET_MODULES
SetModules(modules) ==
  /\ ~effectPending
  /\ state' = habitatReducer(state, [ type |-> "SET_MODULES", payload |-> modules ])
  /\ nextId' = nextId
  /\ effectPending' = TRUE
  /\ roundTrip' = NoRoundTrip
  /\ Called("setModules", << modules >>, NULL)

\* a variant of AddConnectionState that refuses modules that are not placed
AddConnectionState_Gated(st, id, moduleId1, pointId1, moduleId2, pointId2) ==
  IF HasModule(st.modules, moduleId1) /\ HasModule(st.modules, moduleId2)
    THEN habitatReducer(st, [ type |-> "ADD_CONNECTION",
                              payload |-> [ id |-> id, moduleId1 |-> moduleId1,
                                            pointId1 |-> pointId1, moduleId2 |-> moduleId2,
                                            pointId2 |-> pointId2 ] ])
    ELSE st

\* HabitatProvider.addConnection: the state after the call
AddConnectionState(st, id, moduleId1, pointId1, moduleId2, pointId2) ==
  habitatReducer(st, [ type |-> "ADD_CONNECTION",
                       payload |-> [ id |-> id, moduleId1 |-> moduleId1, pointId1 |-> pointId1,
                                     moduleId2 |-> moduleId2, pointId2 |-> pointId2 ] ])

AddConnection(moduleId1, pointId1, moduleId2, pointId2) ==
  /\ ~effectPending
  /\ nextId <= MaxId
  /\ Len(state.connections) < MaxConnections
  /\ state' = AddConnectionState(state, nextId, moduleId1, pointId1, moduleId2, pointId2)
  /\ nextId' = nextId + 1
  /\ effectPending' = TRUE
  /\ roundTrip' = NoRoundTrip
  /\ Called("addConnection", << moduleId1, pointId1, moduleId2, pointId2 >>, nextId)

RemoveConnection(connectionId) ==
  /\ ~effectPending
  /\ state' = habitatReducer(state, [ type |-> "REMOVE_CONNECTION", payload |-> connectionId ])
  /\ nextId' = nextId
  /\ effectPending' = TRUE
  /\ roundTrip' = NoRoundTrip
  /\ Called("removeConnection", << connectionId >>, NULL)

LoadConfiguration(config) ==
  /\ ~effectPending
  /\ state' = habitatReducer(state, [ type |-> "LOAD_CONFIGURATION", payload |-> config ])
  /\ nextId' = nextId
  /\ effectPending' = TRUE
  /\ roundTrip' = NoRoundTrip
  /\ Called("loadConfiguration", << config >>, NULL)

ResetHabitat ==
  /\ ~effectPending
  /\ state' = habitatReducer(state, [ type |-> "RESET_HABITAT" ])
  /\ nextId' = nextId
  /\ effectPending' = TRUE
  /\ roundTrip' = NoRoundTrip
  /\ Called("resetHabitat", << >>, NULL)

\* useConnectionValidator.validateAndUpdateErrors: the state after the call
ValidateAndUpdateErrorsState(st) ==
  LET validation == validateHabitat(st.modules, st.connections)
  IN  habitatReducer(st, [ type |-> "SET_VALIDATION_ERRORS",
                           payload |-> validation.errors \o validation.warnings ])

\* useConnectionValidator, useEffect on [modules, connections]
AutoValidateEffect ==
  /\ effectPending
  /\ state' = IF Len(state.modules) > 0
                THEN ValidateAndUpdateErrorsState(state)
                ELSE habitatReducer(state, [ type |-> "CLEAR_VALIDATION_ERRORS" ])
  /\ effectPending' = FALSE
  /\ lastOp' = [ op |-> "autoValidate", args |-> << >>, ret |-> NULL ]
  /\ pre' = Snapshot
  /\ UNCHANGED << nextId, roundTrip, cc >>

(***************************************************************************)
(* The inputs of Spec                                                      *)
(***************************************************************************)
\* "solar-array" is not in the catalog
DefinitionIdInputs == { "central-hub", "airlock", "solar-array" }

AddPositionInputs == { <<24, 0, 676>> }

MovePositionInputs == { <<0, 0, 364>> }

RotationInputs == { <<1, 5, 1>> }

\* an id no module and no connection ever has
UNKNOWN_ID == NULL - 1

\* the ids of the placed modules, and one that is not placed
ModuleIdInputs == { state.modules[i].id : i \in 1..Len(state.modules) } \cup { UNKNOWN_ID }

\* the ids of the connections, and one of no connection
ConnectionIdInputs ==
  { state.connections[i].id : i \in 1..Len(state.connections) } \cup { UNKNOWN_ID }

ConnectionInputs ==
  { <<101, "north", 102, "back">>, <<1, "outer", UNKNOWN_ID, "hatch">> }

ModuleListInputs ==
  { << [id |-> 101, definitionId |-> "solar-array", position |-> <<0, 0, 0>>,
        rotation |-> <<1, 1, 1>>] >> }

\* the sample, cut to the bound on the module list
ConfigurationInputs ==
  { [ modules |-> SubSeq(MarsResearchStation.modules, 1,
                         IF MaxModules < 4 THEN MaxModules ELSE 4) ] }

Next ==
  \/ \E d \in DefinitionIdInputs, p \in AddPositionInputs :
       AddModule(d, p, <<ANGLE_0, ANGLE_0, ANGLE_0>>)
  \/ \E d \in DefinitionIdInputs, p \in AddPositionInputs : AddModuleAtPosition(d, p)
  \/ \E m \in ModuleIdInputs : RemoveModule(m)
  \/ DeleteSelectedModule
  \/ \E m \in ModuleIdInputs, p \in MovePositionInputs : MoveModule(m, p)
  \/ \E m \in ModuleIdInputs \ { UNKNOWN_ID } : SelectModule(m)
  \/ DeselectModule
  \/ \E ms \in ModuleListInputs : SetModules(ms)
  \/ \E c \in ConnectionInputs : AddConnection(c[1], c[2], c[3], c[4])
  \/ \E c \in ConnectionIdInputs : RemoveConnection(c)
  \/ \E config \in ConfigurationInputs : LoadConfiguration(config)
  \/ ResetHabitat
  \/ AutoValidateEffect

Spec == Init /\ [][Next]_vars

(***************************************************************************)
(* Properties of the habitat store                                         *)
(***************************************************************************)
\* the number of placed modules of a definition
PlacedOf(definitionId) ==
  Cardinality({ i \in 1..Len(state.modules) : state.modules[i].definitionId = definitionId })

\* the sum over the entries k.. of a catalog of (modules placed) x (catalog value)
RECURSIVE CatalogTotal(_, _, _)
CatalogTotal(catalog, field, k) ==
  IF k > Len(catalog) THEN 0
  ELSE PlacedOf(catalog[k].id) * catalog[k][field] + CatalogTotal(catalog, field, k + 1)

\* the totals of the catalog values of the placed modules
TotalsOf(catalog) ==
  [ totalMass |-> CatalogTotal(catalog, "mass", 1),
    totalCrewCapacity |-> CatalogTotal(catalog, "crewCapacity", 1),
    totalPowerConsumption |-> CatalogTotal(catalog, "powerConsumption", 1),
    totalPowerGeneration |-> CatalogTotal(catalog, "powerGeneration", 1),
    totalCost |-> CatalogTotal(catalog, "cost", 1) ]

\* C1: in every reachable state the stored statistics are the values
\* recomputed from the current module list: totalModules is the number of
\* modules, each total is the sum of the catalog values of the placed
\* modules, and powerBalance is generation minus consumption.
C1_StatisticsRecomputed ==
  LET totals == TotalsOf(moduleDefinitions)
  IN  /\ state.statistics.totalModules = Len(state.modules)
      /\ state.statistics.totalMass = totals.totalMass
      /\ state.statistics.totalCrewCapacity = totals.totalCrewCapacity
      /\ state.statistics.totalPowerConsumption = totals.totalPowerConsumption
      /\ state.statistics.totalPowerGeneration = totals.totalPowerGeneration
      /\ state.statistics.totalCost = totals.totalCost
      /\ state.statistics.powerBalance =
           state.statistics.totalPowerGeneration - state.statistics.totalPowerConsumption

\* a module was removed from a habitat of modules of different definitions
C1_Witness ==
  /\ lastOp.op = "removeModule"
  /\ pre.statistics.totalModules > Len(state.modules)
  /\ Len(state.modules) > 0
  /\ state.statistics.totalMass > 0
  /\ pre.statistics.totalMass > state.statistics.totalMass

\* some connection names the module as one of its two ends
Referenced(connections, moduleId) ==
  \E k \in 1..Len(connections) :
    connections[k].moduleId1 = moduleId \/ connections[k].moduleId2 = moduleId

\* C2 as claimed: after removeModule(m) no connection of the habitat
\* references m as moduleId1 or moduleId2.
C2_Original ==
  lastOp.op = "removeModule" => ~Referenced(state.connections, lastOp.args[1])

\* C2 as amended: removeModule(m) leaves the connection list unchanged, so
\* every connection that referenced m before the removal is still there.
C2_ConnectionsKept ==
  [][ lastOp'.op = "removeModule" => state'.connections = state.connections ]_vars

\* a placed module with a connection was removed, and the connection remains
C2_Witness ==
  /\ lastOp.op = "removeModule"
  /\ pre.statistics.totalModules > Len(state.modules)
  /\ Referenced(state.connections, lastOp.args[1])

\* the errors of a report that carry the id of the connection
ErrorsOfConnection(report, connectionId) ==
  LET Keep(error) == error.type # "collision" /\ error.connectionId = connectionId
  IN  SelectSeq(report.errors, Keep)

\* C3: after a module referenced by a connection is removed, validateHabitat
\* reports for that connection exactly one error, which is the
\* reference to a non-existent module.
C3_DanglingConnectionReported ==
  lastOp.op \in { "removeModule", "deleteSelectedModule" } =>
    LET report == validateHabitat(state.modules, state.connections)
    IN  \A k \in 1..Len(state.connections) :
          ( state.connections[k].moduleId1 = lastOp.args[1]
            \/ state.connections[k].moduleId2 = lastOp.args[1] ) =>
            ErrorsOfConnection(report, state.connections[k].id) =
              << [ type |-> "invalid_connection",
                   message |-> "Connection references non-existent module",
                   connectionId |-> state.connections[k].id ] >>

\* a placed module with a connection was removed and another module remains
C3_Witness ==
  /\ lastOp.op = "removeModule"
  /\ pre.statistics.totalModules > Len(state.modules)
  /\ Len(state.modules) > 0
  /\ Referenced(state.connections, lastOp.args[1])
  /\ ~validateHabitat(state.modules, state.connections).isValid

\* C4: removeModule(m) clears the selection exactly when m is the selected
\* module, and leaves selectedModuleId unchanged otherwise.
C4_SelectionOnRemove ==
  [][ lastOp'.op = "removeModule" =>
        state'.selectedModuleId = ( IF state.selectedModuleId = lastOp'.args[1]
                                      THEN NULL ELSE state.selectedModuleId ) ]_vars

\* a placed module was removed while another module was selected
C4_Witness ==
  /\ lastOp.op = "removeModule"
  /\ pre.statistics.totalModules > Len(state.modules)
  /\ pre.selectedModuleId # NULL
  /\ pre.selectedModuleId # lastOp.args[1]
  /\ state.selectedModuleId = pre.selectedModuleId

\* C5: addModule and addModuleAtPosition with a definitionId that is not in
\* the catalog return no id and leave the whole state (modules, connections,
\* selection, statistics) unchanged.
C5_UnknownDefinitionNoOp ==
  [][ ( lastOp'.op \in { "addModule", "addModuleAtPosition" }
        /\ ~HasDefinition(lastOp'.args[1]) ) =>
        ( lastOp'.ret = NULL /\ state' = state ) ]_vars

\* addModuleAtPosition was called with an unknown definition on a habitat
\* with a module and a selection
C5_Witness ==
  /\ lastOp.op = "addModuleAtPosition"
  /\ ~HasDefinition(lastOp.args[1])
  /\ lastOp.ret = NULL
  /\ Len(state.modules) > 0
  /\ state.selectedModuleId # NULL

\* the ids of the modules and of the connections of a state
IdsOf(st) ==
  { st.modules[i].id : i \in 1..Len(st.modules) }
    \cup { st.connections[i].id : i \in 1..Len(st.connections) }

\* C6: addConnection appends exactly one connection made of its four
\* arguments under a fresh id, whatever the arguments are, returns that id,
\* and leaves modules, selection and statistics unchanged.
C6_AddConnectionUngated ==
  [][ lastOp'.op = "addConnection" =>
        /\ lastOp'.ret # NULL
        /\ lastOp'.ret \notin IdsOf(state)
        /\ state'.connections =
             Append(state.connections,
                    [ id |-> lastOp'.ret,
                      moduleId1 |-> lastOp'.args[1], pointId1 |-> lastOp'.args[2],
                      moduleId2 |-> lastOp'.args[3], pointId2 |-> lastOp'.args[4] ])
        /\ state'.modules = state.modules
        /\ state'.selectedModuleId = state.selectedModuleId
        /\ state'.statistics = state.statistics ]_vars

\* a connection between modules that are not placed was added after another
\* connection with the same first end
C6_Witness ==
  /\ lastOp.op = "addConnection"
  /\ ~HasModule(state.modules, lastOp.args[1])
  /\ ~HasModule(state.modules, lastOp.args[3])
  /\ Len(state.connections) = 2
  /\ state.connections[2].id = lastOp.ret
  /\ state.connections[1].moduleId1 = state.connections[2].moduleId1
  /\ state.connections[1].pointId1 = state.connections[2].pointId1

\* C7: adding a module of definition d increases totalMass, totalCost and
\* totalCrewCapacity by exactly the values of d, and removing that module
\* next restores every statistics value to what it was before the add.
C7_StatisticsRoundTrip ==
  [][ /\ ( lastOp'.op \in { "addModule", "addModuleAtPosition" } /\ lastOp'.ret # NULL ) =>
           LET d == FindDefinition(lastOp'.args[1])
           IN  /\ state'.statistics.totalMass = state.statistics.totalMass + d.mass
               /\ state'.statistics.totalCost = state.statistics.totalCost + d.cost
               /\ state'.statistics.totalCrewCapacity =
                    state.statistics.totalCrewCapacity + d.crewCapacity
      /\ ( lastOp'.op = "removeModule" /\ roundTrip.id # NULL
           /\ lastOp'.args[1] = roundTrip.id ) =>
           state'.statistics = roundTrip.statistics ]_vars

\* a module was added to a habitat that was not empty and then removed
C7_Witness ==
  /\ lastOp.op = "removeModule"
  /\ roundTrip.id # NULL
  /\ lastOp.args[1] = roundTrip.id
  /\ pre.statistics.totalModules > Len(state.modules)
  /\ state.statistics = roundTrip.statistics
  /\ state.statistics.totalMass > 0
  /\ state.statistics.totalCrewCapacity > 0

(***************************************************************************)
(* canConnect on the world connection points of two free-standing modules  *)
(***************************************************************************)
\* the first module of a pair, at the origin and unrotated
AnchorInputs ==
  { [id |-> 1, definitionId |-> d, position |-> <<0, 0, 0>>,
     rotation |-> <<ANGLE_0, ANGLE_0, ANGLE_0>>] : d \in { "central-hub", "laboratory" } }

\* <<definitionId, position, angle about Y>> of the second module of a pair.
\* With the hub at the origin: the living quarters face its north point at
\* gaps of 0, 50 and 51 on the axis and at 50 and just over 50 off the axis,
\* and turned by atan(3/4) and atan(4/3) at a gap of 30; the airlock faces
\* its south point with the external point; the hub and the turned
\* laboratory face the utility point of the laboratory at a gap of 30.
PartnerInputs ==
  { <<"living-quarters", <<0, 0, 635>>, 1>>,
    <<"living-quarters", <<0, 0, 685>>, 1>>,
    <<"living-quarters", <<0, 0, 686>>, 1>>,
    <<"living-quarters", <<30, 40, 635>>, 1>>,
    <<"living-quarters", <<30, 40, 636>>, 1>>,
    <<"living-quarters", <<-255, 0, 580>>, 2>>,
    <<"living-quarters", <<-340, 0, 495>>, 3>>,
    <<"airlock", <<0, 0, -390>>, 1>>,
    <<"central-hub", <<450, 0, 0>>, 1>>,
    <<"laboratory", <<450, 0, 0>>, 5>> }

InitCC ==
  /\ state = initialState
  /\ nextId = 1
  /\ effectPending = FALSE
  /\ lastOp = [ op |-> "mount", args |-> << >>, ret |-> NULL ]
  /\ pre = [ selectedModuleId |-> NULL, statistics |-> initialState.statistics,
             totalConnections |-> 0 ]
  /\ roundTrip = NoRoundTrip
  /\ \E a \in AnchorInputs, b \in PartnerInputs :
       cc = [ NoCall EXCEPT !.moduleA = a,
                            !.moduleB = [ id |-> 2, definitionId |-> b[1], position |-> b[2],
                                          rotation |-> <<ANGLE_0, b[3], ANGLE_0>> ] ]

\* canConnect(point1, point2) on a point of each module, in either order
CanConnectCall(first, second, i, j) ==
  /\ i \in 1..Len(getWorldConnectionPoints(first))
  /\ j \in 1..Len(getWorldConnectionPoints(second))
  /\ LET point1 == getWorldConnectionPoints(first)[i]
         point2 == getWorldConnectionPoints(second)[j]
     IN  cc' = [ cc EXCEPT !.point1 = point1, !.point2 = point2, !.called = TRUE,
                           !.result = canConnect(point1, point2) ]
  /\ UNCHANGED << state, nextId, effectPending, lastOp, pre, roundTrip >>

\* the largest number of connection points of a catalog entry
MAX_POINTS == Len(FindDefinition("central-hub").connectionPoints)

\* a point type that connectionRules has no entry for
FOREIGN_TYPE == "docking"

\* canConnect(point1, point2) where the type of one of the two points is not
\* in the rule table
CanConnectForeignCall(first, second, i, j, side) ==
  /\ i \in 1..Len(getWorldConnectionPoints(first))
  /\ j \in 1..Len(getWorldConnectionPoints(second))
  /\ LET given1 == getWorldConnectionPoints(first)[i]
         given2 == getWorldConnectionPoints(second)[j]
         point1 == IF side = 1 THEN [ given1 EXCEPT !.type = FOREIGN_TYPE ] ELSE given1
         point2 == IF side = 2 THEN [ given2 EXCEPT !.type = FOREIGN_TYPE ] ELSE given2
     IN  cc' = [ cc EXCEPT !.point1 = point1, !.point2 = point2, !.called = TRUE,
                           !.result = canConnect(point1, point2) ]
  /\ UNCHANGED << state, nextId, effectPending, lastOp, pre, roundTrip >>

NextCC ==
  \/ \E i, j \in 1..MAX_POINTS : CanConnectCall(cc.moduleA, cc.moduleB, i, j)
  \/ \E i, j \in 1..MAX_POINTS : CanConnectCall(cc.moduleB, cc.moduleA, i, j)
  \/ \E i, j \in 1..MAX_POINTS, side \in 1..2 :
       CanConnectForeignCall(cc.moduleA, cc.moduleB, i, j, side)

SpecCC == InitCC /\ [][NextCC]_vars

\* the compatibility table of the rule: the types that may follow a first type
Listed(type1, type2) ==
  \/ type1 = "structural" /\ type2 = "structural"
  \/ type1 = "utility" /\ type2 \in { "structural", "utility" }

\* C8: canConnect(A, B) fails with the incompatible-type reason exactly when
\* B's type is not listed for A's type (structural -> structural; utility ->
\* structural, utility; external -> nothing); so structural-first with
\* utility-second is rejected, and a pair with an external point is rejected
\* in both argument orders.
C8_TypeRuleKeyedByFirst ==
  cc.called =>
    /\ ( cc.result.reason = "Incompatible connection types" )
         <=> ~Listed(cc.point1.type, cc.point2.type)
    /\ ( cc.point1.type = "structural" /\ cc.point2.type = "utility" ) => ~cc.result.canConnect
    /\ ( "external" \in { cc.point1.type, cc.point2.type } ) =>
         ( ~cc.result.canConnect /\ ~canConnect(cc.point2, cc.point1).canConnect )

\* a utility point was accepted with a structural point second, and the
\* same pair is rejected in the other order
C8_Witness ==
  /\ cc.called
  /\ cc.point1.type = "utility"
  /\ cc.point2.type = "structural"
  /\ cc.result.canConnect
  /\ canConnect(cc.point2, cc.point1).reason = "Incompatible connection types"

\* the square of the distance between the two world positions of the call
CallDistance == distance3D(cc.point1.worldPosition, cc.point2.worldPosition)

\* the dot product of the two world normals of the call, in 1/NORMAL_UNIT^2
CallAlignment == dotProduct(cc.point1.worldNormal, cc.point2.worldNormal)

\* C9: for type-compatible points, a pair more than 0.5 m apart is rejected
\* as too far, a pair at most 0.5 m apart passes the distance check, and a
\* pair exactly 0.5 m apart whose normals are opposed is accepted.
C9_DistanceBoundary ==
  ( cc.called /\ Listed(cc.point1.type, cc.point2.type) ) =>
    /\ CallDistance > MAX_CONNECTION_DISTANCE * MAX_CONNECTION_DISTANCE =>
         ( ~cc.result.canConnect /\ cc.result.reason = "Connection points too far apart" )
    /\ CallDistance <= MAX_CONNECTION_DISTANCE * MAX_CONNECTION_DISTANCE =>
         cc.result.reason # "Connection points too far apart"
    /\ ( CallDistance = MAX_CONNECTION_DISTANCE * MAX_CONNECTION_DISTANCE
         /\ CallAlignment = -(NORMAL_UNIT * NORMAL_UNIT) ) =>
         cc.result.canConnect

\* two opposed structural points exactly 0.5 m apart, off the axis, were
\* accepted
C9_Witness ==
  /\ cc.called
  /\ Listed(cc.point1.type, cc.point2.type)
  /\ CallDistance = MAX_CONNECTION_DISTANCE * MAX_CONNECTION_DISTANCE
  /\ cc.point1.worldPosition[1] # cc.point2.worldPosition[1]
  /\ CallAlignment = -(NORMAL_UNIT * NORMAL_UNIT)
  /\ cc.result.canConnect

\* alignment <= cos(0.8 pi) = -(1 + sqrt 5)/4, alignment in 1/NORMAL_UNIT^2:
\* with u = NORMAL_UNIT^2, 4 a + u <= -u sqrt 5, i.e. 4 a + u <= 0 and
\* (4 a + u)^2 >= 5 u^2
WithinMinAlignmentAngle(alignment) ==
  LET u == NORMAL_UNIT * NORMAL_UNIT
  IN  /\ 4 * alignment + u <= 0
      /\ (4 * alignment + u) * (4 * alignment + u) >= 5 * u * u

\* C10 as claimed: a type-compatible pair within the distance is rejected as
\* misaligned exactly when the dot product of its world normals is above
\* cos 144 degrees (MIN_ALIGNMENT_ANGLE = 0.8 pi), and accepted otherwise.
C10_AlignmentAt144Degrees ==
  ( /\ cc.called
    /\ Listed(cc.point1.type, cc.point2.type)
    /\ CallDistance <= MAX_CONNECTION_DISTANCE * MAX_CONNECTION_DISTANCE ) =>
    /\ cc.result.canConnect <=> WithinMinAlignmentAngle(CallAlignment)
    /\ ( cc.result.reason = "Connection points not properly aligned" )
         <=> ~WithinMinAlignmentAngle(CallAlignment)

\* C18: canConnect always returns a decision and one of its reasons; it
\* accepts exactly when the type check, the distance check and the alignment
\* check all pass; a rejection carries the reason of the first check that
\* fails, in the order type, distance, alignment; a point whose type is not
\* in the rule table connects to nothing and nothing connects to it.
C18_FirstFailingCheck ==
  cc.called =>
    LET typePasses == Listed(cc.point1.type, cc.point2.type)
        distancePasses == CallDistance <= MAX_CONNECTION_DISTANCE * MAX_CONNECTION_DISTANCE
        alignmentPasses == ~AlignmentRejected(CallAlignment)
    IN  /\ cc.result.canConnect \in BOOLEAN
        /\ cc.result.reason \in { "Incompatible connection types",
                                  "Connection points too far apart",
                                  "Connection points not properly aligned",
                                  "Connection valid" }
        /\ cc.result.canConnect <=> ( typePasses /\ distancePasses /\ alignmentPasses )
        /\ cc.result.canConnect <=> cc.result.reason = "Connection valid"
        /\ ~typePasses => cc.result.reason = "Incompatible connection types"
        /\ ( typePasses /\ ~distancePasses ) =>
             cc.result.reason = "Connection points too far apart"
        /\ ( typePasses /\ distancePasses /\ ~alignmentPasses ) =>
             cc.result.reason = "Connection points not properly aligned"
        /\ ( cc.point1.type \notin connectionTypes \/ cc.point2.type \notin connectionTypes ) =>
             cc.result = [ canConnect |-> FALSE, reason |-> "Incompatible connection types" ]

\* a utility point was rejected for the type of a point whose type is not in
\* the table, although the two points are opposed and 0.3 m apart
C18_Witness ==
  /\ cc.called
  /\ cc.point1.type = "utility"
  /\ cc.point2.type \notin connectionTypes
  /\ CallDistance <= MAX_CONNECTION_DISTANCE * MAX_CONNECTION_DISTANCE
  /\ CallAlignment = -(NORMAL_UNIT * NORMAL_UNIT)
  /\ cc.result.reason = "Incompatible connection types"

(***************************************************************************)
(* checkModuleCollision on two free-standing modules                       *)
(***************************************************************************)
\* the habitat is not involved in a call of a pure function
HabitatIdle ==
  /\ state = initialState
  /\ nextId = 1
  /\ effectPending = FALSE
  /\ lastOp = [ op |-> "mount", args |-> << >>, ret |-> NULL ]
  /\ pre = [ selectedModuleId |-> NULL, statistics |-> initialState.statistics,
             totalConnections |-> 0 ]
  /\ roundTrip = NoRoundTrip

\* "solar-array" is not in the catalog
CollisionDefinitionInputs == { "central-hub", "recreation", "solar-array" }

\* 4.0, 4.4 and 5.0 apart on X; at and next to the hub-hub limit on Y and Z
CollisionPositionInputs ==
  { <<0, 0, 0>>, <<400, 0, 0>>, <<440, 0, 0>>, <<500, 0, 0>>, <<400, 440, 0>>, <<400, 0, 439>> }

InitCollision ==
  /\ HabitatIdle
  /\ \E d1, d2 \in CollisionDefinitionInputs, p1, p2 \in CollisionPositionInputs :
       cc = [ module1 |-> [ id |-> 1, definitionId |-> d1, position |-> p1,
                            rotation |-> <<ANGLE_0, ANGLE_0, ANGLE_0>> ],
              module2 |-> [ id |-> 2, definitionId |-> d2, position |-> p2,
                            rotation |-> <<ANGLE_0, ANGLE_0, ANGLE_0>> ],
              called |-> FALSE,
              result |-> FALSE ]

CheckModuleCollisionCall ==
  /\ ~cc.called
  /\ cc' = [ cc EXCEPT !.called = TRUE,
                       !.result = checkModuleCollision(cc.module1, cc.module2) ]
  /\ UNCHANGED << state, nextId, effectPending, lastOp, pre, roundTrip >>

NextCollision == CheckModuleCollisionCall

SpecCollision == InitCollision /\ [][NextCollision]_vars

\* the extents of a catalog entry on the axes X, Y and Z
ExtentsOf(definitionId) ==
  LET dimensions == FindDefinition(definitionId).dimensions
  IN  << dimensions.width, dimensions.height, dimensions.depth >>

\* twice the distance of the centres on the axis is less than the sum of
\* the extents plus twice 0.2 m
CloseOnAxis(module1, module2, axis) ==
  2 * Abs(module1.position[axis] - module2.position[axis])
    < ExtentsOf(module1.definitionId)[axis] + ExtentsOf(module2.definitionId)[axis] + 2 * 20

\* C11: for two modules with catalog definitions, checkModuleCollision is
\* true exactly when on every axis the centres are closer than half the sum
\* of the extents plus 0.2 m; two width-4.2 modules with equal Y and Z
\* collide 4.0 apart on X and do not 5.0 apart; the result is the same with
\* the arguments swapped.
C11_CollisionOnAllAxes ==
  ( /\ cc.called
    /\ HasDefinition(cc.module1.definitionId)
    /\ HasDefinition(cc.module2.definitionId) ) =>
    /\ cc.result <=> \A axis \in 1..3 : CloseOnAxis(cc.module1, cc.module2, axis)
    /\ cc.result = checkModuleCollision(cc.module2, cc.module1)
    /\ ( /\ ExtentsOf(cc.module1.definitionId)[1] = 420
         /\ ExtentsOf(cc.module2.definitionId)[1] = 420
         /\ cc.module1.position[2] = cc.module2.position[2]
         /\ cc.module1.position[3] = cc.module2.position[3] ) =>
         /\ Abs(cc.module1.position[1] - cc.module2.position[1]) = 400 => cc.result
         /\ Abs(cc.module1.position[1] - cc.module2.position[1]) = 500 => ~cc.result

\* two hubs 4.0 apart on X were found colliding
C11_Witness ==
  /\ cc.called
  /\ cc.module1.definitionId = "central-hub"
  /\ cc.module2.definitionId = "central-hub"
  /\ cc.module1.position = <<0, 0, 0>>
  /\ cc.module2.position = <<400, 0, 0>>
  /\ cc.result

(***************************************************************************)
(* Validation of a habitat that is already built                           *)
(***************************************************************************)
PlacedModule(id, definitionId, position) ==
  [ id |-> id, definitionId |-> definitionId, position |-> position,
    rotation |-> <<ANGLE_0, ANGLE_0, ANGLE_0>> ]

\* the module lists: in insertion order, module 1 is a hub at the origin;
\* module 2 is living quarters whose back point is 0.3 m from the north
\* point of the hub, or moved 2.35 m further; module 3 is a laboratory far
\* away; module 4 has a definition that is not in the catalog; module 5 is
\* a hub whose south point is 0.1 m from the front point of module 2
ModuleListsOfValidate ==
  LET A  == PlacedModule(1, "central-hub", <<0, 0, 0>>)
      B  == PlacedModule(2, "living-quarters", <<0, 0, 665>>)
      Bm == PlacedModule(2, "living-quarters", <<0, 0, 900>>)
      C  == PlacedModule(3, "laboratory", <<2000, 0, 0>>)
      U  == PlacedModule(4, "solar-array", <<0, 0, -2000>>)
      D  == PlacedModule(5, "central-hub", <<0, 0, 1310>>)
  IN  { << >>, <<A>>, <<C>>, <<A, B>>, <<B, A>>, <<A, Bm>>, <<A, C>>, <<A, U>>,
        <<A, B, C>>, <<C, A, B>>, <<A, B, U>>, <<A, B, D>>, <<A, Bm, D>>,
        <<D, B, A>> }

\* GHOST_ID is the id of a module that was removed
GHOST_ID == UNKNOWN_ID - 1

\* the connections, in insertion order: 1 joins the hub and the living
\* quarters; 2 and 6 reference the removed module; 3 names a point that
\* module 3 does not have; 4 references the module without a definition;
\* 5 joins two modules that are far apart
ConnectionPool ==
  LET Connection(id, moduleId1, pointId1, moduleId2, pointId2) ==
        [ id |-> id, moduleId1 |-> moduleId1, pointId1 |-> pointId1,
          moduleId2 |-> moduleId2, pointId2 |-> pointId2 ]
  IN  << Connection(1, 1, "north", 2, "back"),
         Connection(2, 1, "south", GHOST_ID, "hatch"),
         Connection(3, 2, "front", 3, "side"),
         Connection(4, 1, "down", 4, "port"),
         Connection(5, 3, "back", 1, "east"),
         Connection(6, GHOST_ID, "hatch", 3, "front") >>

ConnectionListsOfValidate ==
  { << >> }
    \cup { << ConnectionPool[i] >> : i \in 1..Len(ConnectionPool) }
    \cup { << ConnectionPool[i], ConnectionPool[j] >> :
             i \in 1..Len(ConnectionPool), j \in 1..Len(ConnectionPool) } 

InitValidate ==
  /\ \E modules \in ModuleListsOfValidate, connections \in ConnectionListsOfValidate :
       /\ \A i, j \in 1..Len(connections) : i < j => connections[i].id < connections[j].id
       /\ state = [ initialState EXCEPT !.modules = modules,
                                        !.connections = connections,
                                        !.statistics = calculateStatistics(modules) ]
  /\ nextId = 1
  /\ effectPending = FALSE
  /\ lastOp = [ op |-> "mount", args |-> << >>, ret |-> NULL ]
  /\ pre = Snapshot
  /\ roundTrip = NoRoundTrip
  /\ cc = NoCall

\* useConnectionValidator.validateAndUpdateErrors (also exported as revalidate)
ValidateAndUpdateErrorsCall ==
  /\ ~effectPending
  /\ state' = ValidateAndUpdateErrorsState(state)
  /\ UNCHANGED << nextId, effectPending, roundTrip >>
  /\ Called("validateAndUpdateErrors", << >>, validateHabitat(state.modules, state.connections))

\* <<X, Z>> components given to rotateModule, the Y component being kept
TiltInputs == { <<4, 2>> }

\* the ids of the modules of the habitat
PlacedIds == { state.modules[i].id : i \in 1..Len(state.modules) }

NextValidate ==
  \/ ValidateAndUpdateErrorsCall
  \/ \E m \in PlacedIds, tilt \in TiltInputs :
       RotateModule(m, << tilt[1], FindModule(state.modules, m).rotation[2], tilt[2] >>)
  \/ \E m \in PlacedIds \cap { 2 } : RotateModule(m, << ANGLE_0, 4, ANGLE_0 >>)
  \/ AutoValidateEffect

SpecValidate == InitValidate /\ [][NextValidate]_vars

\* the world connection points of every module of a list
WorldPointsOf(modules) == [ i \in 1..Len(modules) |-> getWorldConnectionPoints(modules[i]) ]

\* the decision of canConnect on every ordered pair of world points of a list
DecisionsOf(modules) ==
  [ i \in 1..Len(modules), j \in 1..Len(modules) |->
      LET points1 == getWorldConnectionPoints(modules[i])
          points2 == getWorldConnectionPoints(modules[j])
      IN  [ p \in 1..Len(points1), q \in 1..Len(points2) |->
              canConnect(points1[p], points2[q]) ] ]

\* a call of rotateModule on a placed module that keeps its Y component
TiltStep ==
  /\ lastOp'.op = "rotateModule"
  /\ HasModule(state.modules, lastOp'.args[1])
  /\ lastOp'.args[2][2] = FindModule(state.modules, lastOp'.args[1]).rotation[2]

\* C16: a habitat and the habitat that differs from it only in the X and Z
\* components of the rotation of a module have the same world connection
\* points, the same canConnect decisions and the same validateHabitat report.
C16_TiltIgnored ==
  [][ TiltStep =>
        /\ WorldPointsOf(state'.modules) = WorldPointsOf(state.modules)
        /\ DecisionsOf(state'.modules) = DecisionsOf(state.modules)
        /\ validateHabitat(state'.modules, state'.connections)
             = validateHabitat(state.modules, state.connections) ]_vars

\* a connected module that is turned about Y was given other X and Z
\* components and the habitat was validated again
C16_Witness ==
  /\ lastOp.op = "autoValidate"
  /\ Len(state.connections) > 0
  /\ \E i \in 1..Len(state.modules) :
       /\ state.modules[i].rotation[1] # ANGLE_0
       /\ state.modules[i].rotation[2] # ANGLE_0
       /\ state.modules[i].rotation[3] # ANGLE_0
       /\ Referenced(state.connections, state.modules[i].id)

\* the report returned by the validation that has just run
Validated == lastOp.op = "validateAndUpdateErrors"

\* the warnings of the returned report that tell of disconnected modules
DisconnectionWarnings ==
  SelectSeq(lastOp.ret.warnings, LAMBDA w : w.type = "disconnected_modules")

\* the ids joined to an id of the set by a chain of connections, in either
\* direction
RECURSIVE ReachableFrom(_, _)
ReachableFrom(connections, ids) ==
  LET step == ids \cup { connections[k].moduleId2 :
                           k \in { n \in 1..Len(connections) : connections[n].moduleId1 \in ids } }
                  \cup { connections[k].moduleId1 :
                           k \in { n \in 1..Len(connections) : connections[n].moduleId2 \in ids } }
  IN  IF step = ids THEN ids ELSE ReachableFrom(connections, step)

\* the modules of the list that no chain of connections joins to the first
Unreachable(modules, connections) ==
  { i \in 1..Len(modules) :
      modules[i].id \notin ReachableFrom(connections, { modules[1].id }) }

\* C12 as claimed: with two or more modules, validateHabitat warns of
\* disconnected modules if and only if some module of the list is not
\* reachable from the first module through the connections, whatever the
\* connections reference.
C12_WarningIffUnreachable ==
  ( Validated /\ Len(state.modules) >= 2 ) =>
    ( Len(DisconnectionWarnings) > 0
        <=> Unreachable(state.modules, state.connections) # {} )

\* C13: with no module or one module, validateHabitat gives no warning of
\* disconnected modules, whatever the connection list contains.
C13_NoWarningBelowTwoModules ==
  ( Validated /\ Len(state.modules) <= 1 ) => Len(DisconnectionWarnings) = 0

\* a single module was validated with a connection that references it
C13_Witness ==
  /\ Validated
  /\ Len(state.modules) = 1
  /\ Len(state.connections) > 0
  /\ Referenced(state.connections, state.modules[1].id)
  /\ Len(lastOp.ret.errors) > 0
  /\ Len(lastOp.ret.warnings) = 0

\* the values of a sequence
RangeOf(seq) == { seq[i] : i \in 1..Len(seq) }

\* C14 as claimed: with three modules of which two are joined by the
\* connections and the third has no connection, validateHabitat gives
\* exactly one warning of disconnected modules, and that warning carries
\* the id of the third module.
C14_WarningNamesIsolatedModule ==
  ( /\ Validated
    /\ Len(state.modules) = 3
    /\ Len(state.connections) > 0 ) =>
    \A a, b, c \in 1..3 :
      ( /\ { a, b, c } = 1..3
        /\ \A k \in 1..Len(state.connections) :
             { state.connections[k].moduleId1, state.connections[k].moduleId2 }
               = { state.modules[a].id, state.modules[b].id } ) =>
        /\ Len(DisconnectionWarnings) = 1
        /\ "moduleIds" \in DOMAIN DisconnectionWarnings[1]
        /\ state.modules[c].id \in RangeOf(DisconnectionWarnings[1].moduleIds)

\* the number of errors the connection must get: one when a module is
\* missing, when a point is missing on its module, or when canConnect
\* rejects the two points in the stored order; none otherwise
ErrorsDue(modules, connection) ==
  IF ~HasId(modules, connection.moduleId1) \/ ~HasId(modules, connection.moduleId2) THEN 1
  ELSE LET points1 == getWorldConnectionPoints(FindId(modules, connection.moduleId1))
           points2 == getWorldConnectionPoints(FindId(modules, connection.moduleId2))
       IN  IF ~HasId(points1, connection.pointId1) \/ ~HasId(points2, connection.pointId2) THEN 1
           ELSE IF ~canConnect(FindId(points1, connection.pointId1),
                               FindId(points2, connection.pointId2)).canConnect THEN 1
           ELSE 0

\* C19: validateHabitat gives each connection exactly one error when a
\* module or a point it references is missing or canConnect rejects its
\* points in the stored order, and no error otherwise; the validation leaves
\* the connection list as it was.
C19_OneErrorPerBadConnection ==
  /\ []( Validated =>
           \A k \in 1..Len(state.connections) :
             Len(ErrorsOfConnection(lastOp.ret, state.connections[k].id))
               = ErrorsDue(state.modules, state.connections[k]) )
  /\ [][ lastOp'.op = "validateAndUpdateErrors" => state'.connections = state.connections ]_vars

\* a connection whose module was moved away got its one error next to a
\* connection to a removed module
C19_Witness ==
  /\ Validated
  /\ Len(state.connections) = 2
  /\ ErrorsDue(state.modules, state.connections[1]) = 1
  /\ HasId(state.modules, state.connections[1].moduleId1)
  /\ HasId(state.modules, state.connections[1].moduleId2)
  /\ lastOp.ret.errors[1].message = "Connection points too far apart"
  /\ ~HasId(state.modules, state.connections[2].moduleId2)
  /\ Len(lastOp.ret.errors) = 2

(***************************************************************************)
(* The search for potential connections in a habitat that is already built *)
(***************************************************************************)
InitFind ==
  /\ InitValidate
  /\ state.connections = << >>

\* the candidate positions: where the living quarters touch the hub, where
\* they are after the move, the origin, and where the living quarters are
\* 0.2 m from both hubs
CandidatePositionInputs == { <<0, 0, 665>>, <<0, 0, 900>>, <<0, 0, 0>>, <<0, 0, 655>> }

\* findPotentialConnections(targetModule, targetPosition, existingModules)
\* on a module of the habitat and the whole module list
FindPotentialConnectionsCall(k, targetPosition) ==
  /\ ~effectPending
  /\ k \in 1..Len(state.modules)
  /\ UNCHANGED << state, nextId, effectPending, roundTrip >>
  /\ Called("findPotentialConnections",
            << state.modules[k], targetPosition, state.modules >>,
            findPotentialConnections(state.modules[k], targetPosition, state.modules))

\* position = null, the default argument of getPotentialConnections
NO_POSITION == << >>

\* useConnectionValidator.getPotentialConnections: the value returned
GetPotentialConnectionsResult(modules, moduleId, position) ==
  IF ~HasModule(modules, moduleId) THEN << >>
  ELSE LET targetModule == FindModule(modules, moduleId)
           moduleAtPosition == IF position # NO_POSITION
                                 THEN [ targetModule EXCEPT !.position = position ]
                                 ELSE targetModule
           otherModules == SelectSeq(modules, LAMBDA m : m.id # moduleId)
       IN  findPotentialConnections(moduleAtPosition, moduleAtPosition.position, otherModules)

GetPotentialConnectionsCall(moduleId, position) ==
  /\ ~effectPending
  /\ UNCHANGED << state, nextId, effectPending, roundTrip >>
  /\ Called("getPotentialConnections", << moduleId, position >>,
            GetPotentialConnectionsResult(state.modules, moduleId, position))

NextFind ==
  \/ \E k \in 1..Len(state.modules), targetPosition \in CandidatePositionInputs :
       FindPotentialConnectionsCall(k, targetPosition)
  \/ \E moduleId \in PlacedIds \cup { UNKNOWN_ID },
        position \in CandidatePositionInputs \cup { NO_POSITION } :
       GetPotentialConnectionsCall(moduleId, position)

SpecFind == InitFind /\ [][NextFind]_vars

\* <<p, k, q>>: point p of the target at the candidate position and point q
\* of module k of the others, which is not the target, are accepted by
\* canConnect in this order
AcceptedPairs(target, position, others) ==
  LET targetPoints == getWorldConnectionPoints([ target EXCEPT !.position = position ])
  IN  { x \in (1..MAX_POINTS) \X (1..Len(others)) \X (1..MAX_POINTS) :
          /\ x[1] <= Len(targetPoints)
          /\ others[x[2]].id # target.id
          /\ x[3] <= Len(getWorldConnectionPoints(others[x[2]]))
          /\ canConnect(targetPoints[x[1]],
                        getWorldConnectionPoints(others[x[2]])[x[3]]).canConnect }

\* the result holds one entry for each accepted pair and no other entry, the
\* target points are those at the candidate position, no entry pairs the
\* target with itself, and the distances do not decrease
FoundAsDue(target, position, others, result) ==
  LET targetPoints == getWorldConnectionPoints([ target EXCEPT !.position = position ])
      accepted == AcceptedPairs(target, position, others)
  IN  /\ Len(result) = Cardinality(accepted)
      /\ { << result[i].targetPoint, result[i].existingPoint >> : i \in 1..Len(result) }
           = { << targetPoints[x[1]], getWorldConnectionPoints(others[x[2]])[x[3]] >> :
                 x \in accepted }
      /\ \A i \in 1..Len(result) :
           /\ result[i].existingModule.id # target.id
           /\ result[i].existingPoint.moduleId = result[i].existingModule.id
           /\ result[i].targetPoint.worldPosition
                = transformPoint(result[i].targetPoint.position, position, target.rotation)
           /\ result[i].distance = distance3D(result[i].targetPoint.worldPosition,
                                              result[i].existingPoint.worldPosition)
      /\ \A i, j \in 1..Len(result) : i < j => result[i].distance <= result[j].distance

\* C20: findPotentialConnections(target, candidatePosition, others) returns
\* exactly the pairs of a target point and a point of another module that
\* canConnect accepts in this order, the target points being taken at the
\* candidate position and not at the stored one, the target never paired
\* with itself, in the order of non-decreasing distance; so does
\* getPotentialConnections for a module of the habitat.
C20_PotentialConnections ==
  /\ lastOp.op = "findPotentialConnections" =>
       FoundAsDue(lastOp.args[1], lastOp.args[2], lastOp.args[3], lastOp.ret)
  /\ ( lastOp.op = "getPotentialConnections" /\ HasModule(state.modules, lastOp.args[1]) ) =>
       LET target == FindModule(state.modules, lastOp.args[1])
       IN  FoundAsDue(target,
                      IF lastOp.args[2] # NO_POSITION THEN lastOp.args[2] ELSE target.position,
                      state.modules, lastOp.ret)

\* the living quarters, stored where they do not connect, were tried where
\* they touch both hubs; the nearer hub, which is later in the list, came
\* first
C20_Witness ==
  /\ lastOp.op = "findPotentialConnections"
  /\ lastOp.args[1].position # lastOp.args[2]
  /\ Len(lastOp.ret) = 2
  /\ lastOp.ret[1].existingModule.id = lastOp.args[3][3].id
  /\ lastOp.ret[2].existingModule.id = lastOp.args[3][1].id
  /\ lastOp.ret[1].distance < lastOp.ret[2].distance
  /\ findPotentialConnections(lastOp.args[1], lastOp.args[1].position, lastOp.args[3]) = << >>

(***************************************************************************)
(* The operations of useModuleManager and useConnectionValidator on the    *)
(* running application                                                     *)
(***************************************************************************)
\* a variant of CloneModuleState that adds the copy with addModule itself
CloneModuleState_DirectAdd(st, id, sourceModuleId, offset) ==
  IF ~HasModule(st.modules, sourceModuleId) THEN st
  ELSE LET sourceModule == FindModule(st.modules, sourceModuleId)
           newPosition == << sourceModule.position[1] + offset[1],
                             sourceModule.position[2] + offset[2],
                             sourceModule.position[3] + offset[3] >>
       IN  AddModuleState(st, id, sourceModule.definitionId, newPosition,
                          <<ANGLE_0, ANGLE_0, ANGLE_0>>)

\* useModuleManager.cloneModule: the state after the call
CloneModuleState(st, id, sourceModuleId, offset) ==
  IF ~HasModule(st.modules, sourceModuleId) THEN st
  ELSE LET sourceModule == FindModule(st.modules, sourceModuleId)
           newPosition == << sourceModule.position[1] + offset[1],
                             sourceModule.position[2] + offset[2],
                             sourceModule.position[3] + offset[3] >>
       IN  AddModuleAtPositionState(st, id, sourceModule.definitionId, newPosition)

\* useModuleManager.cloneModule: the value returned
CloneModuleResult(st, id, sourceModuleId) ==
  IF ~HasModule(st.modules, sourceModuleId) THEN NULL
  ELSE AddModuleResult(id, FindModule(st.modules, sourceModuleId).definitionId)

CloneModule(sourceModuleId, offset) ==
  /\ ~effectPending
  /\ HasModule(state.modules, sourceModuleId) =>
       CanGrow(FindModule(state.modules, sourceModuleId).definitionId)
  /\ state' = CloneModuleState(state, nextId, sourceModuleId, offset)
  /\ nextId' = IF CloneModuleResult(state, nextId, sourceModuleId) # NULL
                 THEN nextId + 1 ELSE nextId
  /\ effectPending' = (CloneModuleResult(state, nextId, sourceModuleId) # NULL)
  /\ roundTrip' = NoRoundTrip
  /\ Called("cloneModule", << sourceModuleId, offset >>,
            CloneModuleResult(state, nextId, sourceModuleId))

\* useConnectionValidator.dismissValidationError; errorIndex counts from 1 here
DismissValidationError(errorIndex) ==
  /\ ~effectPending
  /\ state' = habitatReducer(state,
                [ type |-> "SET_VALIDATION_ERRORS",
                  payload |-> SubSeq(state.validationErrors, 1, errorIndex - 1)
                                \o SubSeq(state.validationErrors, errorIndex + 1,
                                          Len(state.validationErrors)) ])
  /\ UNCHANGED << nextId, effectPending >>
  /\ roundTrip' = NoRoundTrip
  /\ Called("dismissValidationError", << errorIndex >>, NULL)

\* offset = [2, 0, 0], the default argument of cloneModule
DEFAULT_OFFSET == <<200, 0, 0>>

\* the definitions offered by the module library
LibraryInputs == { "central-hub" }

NextManager ==
  \/ \E d \in LibraryInputs, p \in AddPositionInputs :
       AddModule(d, p, <<ANGLE_0, ANGLE_0, ANGLE_0>>)
  \/ \E d \in LibraryInputs, p \in AddPositionInputs : AddModuleAtPosition(d, p)
  \/ \E m \in ModuleIdInputs : CloneModule(m, DEFAULT_OFFSET)
  \/ \E m \in ModuleIdInputs : RemoveModule(m)
  \/ \E m \in ModuleIdInputs, p \in MovePositionInputs : MoveModule(m, p)
  \/ \E c \in ConnectionInputs : AddConnection(c[1], c[2], c[3], c[4])
  \/ \E c \in ConnectionIdInputs : RemoveConnection(c)
  \/ \E config \in ConfigurationInputs : LoadConfiguration(config)
  \/ DismissValidationError(1)
  \/ AutoValidateEffect

SpecManager == Init /\ [][NextManager]_vars

\* C15 as claimed: whenever no validation is pending, the stored
\* validationErrors are the errors followed by the warnings of
\* validateHabitat on the current modules and connections.
C15_ReportFresh ==
  ~effectPending =>
    LET report == validateHabitat(state.modules, state.connections)
    IN  state.validationErrors = report.errors \o report.warnings

\* C17: cloneModule of a module of the habitat appends one module with a
\* fresh id, which is returned, and the definition of the source, at the
\* position of the source plus the offset snapped to the 0.5 m grid, and
\* selects it; cloneModule of an id the habitat does not have returns null
\* and changes nothing.
C17_CloneThroughPlacement ==
  [][ lastOp'.op = "cloneModule" =>
        LET sourceModuleId == lastOp'.args[1]
            offset == lastOp'.args[2]
            n == Len(state.modules)
        IN  IF HasModule(state.modules, sourceModuleId)
              THEN LET sourceModule == FindModule(state.modules, sourceModuleId)
                       clone == state'.modules[n + 1]
                   IN  /\ Len(state'.modules) = n + 1
                       /\ SubSeq(state'.modules, 1, n) = state.modules
                       /\ ~HasModule(state.modules, clone.id)
                       /\ lastOp'.ret = clone.id
                       /\ clone.definitionId = sourceModule.definitionId
                       /\ \A axis \in 1..3 :
                            /\ clone.position[axis] % 50 = 0
                            /\ 2 * Abs(clone.position[axis]
                                       - (sourceModule.position[axis] + offset[axis])) <= 50
                       /\ state'.selectedModuleId = clone.id
                       /\ state'.connections = state.connections
              ELSE /\ lastOp'.ret = NULL
                   /\ state' = state ]_vars

\* a module that is off the 0.5 m grid was cloned with the default offset;
\* the clone is on the grid and selected
C17_Witness ==
  /\ lastOp.op = "cloneModule"
  /\ lastOp.args[2] = <<200, 0, 0>>
  /\ lastOp.ret # NULL
  /\ state.selectedModuleId = lastOp.ret
  /\ HasModule(state.modules, lastOp.args[1])
  /\ FindModule(state.modules, lastOp.args[1]).position[3] % 50 # 0
  /\ state.modules[Len(state.modules)].id = lastOp.ret
  /\ state.modules[Len(state.modules)].position[3] % 50 = 0

(***************************************************************************)
(* The order of the potential connections that are equally far             *)
(***************************************************************************)
\* the ids of the connection points of the catalog, in lexical order
PointIdsInLexicalOrder ==
  << "back", "down", "east", "front", "inner", "north", "outer", "south", "up",
     "utility", "west" >>

\* the place of a point id in the lexical order
LexicalRank(pointId) ==
  CHOOSE r \in 1..Len(PointIdsInLexicalOrder) : PointIdsInLexicalOrder[r] = pointId

\* entry a is not behind entry b in the lexical order of the point ids, the
\* point of the target first
InPointIdOrder(a, b) ==
  \/ LexicalRank(a.targetPoint.id) < LexicalRank(b.targetPoint.id)
  \/ /\ a.targetPoint.id = b.targetPoint.id
     /\ LexicalRank(a.existingPoint.id) <= LexicalRank(b.existingPoint.id)

\* the sequence in the opposite order
Reversed(seq) == [ i \in 1..Len(seq) |-> seq[Len(seq) + 1 - i] ]

\* the points and the module that the closest candidate joins
ChoiceOf(potentials) ==
  IF potentials = << >> THEN << >>
  ELSE << potentials[1].targetPoint.id, potentials[1].existingModule.id,
          potentials[1].existingPoint.id >>

\* C21: among the entries of findPotentialConnections that are equally far,
\* the entries are in the lexical order of their point ids, and the closest
\* candidate is the same when the existing modules are given in the opposite
\* order.
C21_TiesInPointIdOrder ==
  lastOp.op = "findPotentialConnections" =>
    /\ \A i, j \in 1..Len(lastOp.ret) :
         ( i < j /\ lastOp.ret[i].distance = lastOp.ret[j].distance )
           => InPointIdOrder(lastOp.ret[i], lastOp.ret[j])
    /\ ChoiceOf(lastOp.ret)
         = ChoiceOf(findPotentialConnections(lastOp.args[1], lastOp.args[2],
                                             Reversed(lastOp.args[3])))

(***************************************************************************)
(* Auto-connect in a habitat that is already built                         *)
(***************************************************************************)
\* useConnectionValidator.getClosestConnection with position = null:
\* potentials.length > 0
HasClosestConnection(modules, moduleId) ==
  GetPotentialConnectionsResult(modules, moduleId, NO_POSITION) # << >>

\* useConnectionValidator.getClosestConnection with position = null:
\* potentials[0]
GetClosestConnection(modules, moduleId) ==
  GetPotentialConnectionsResult(modules, moduleId, NO_POSITION)[1]

\* a variant of AutoConnectState that takes the last potential connection
AutoConnectState_Farthest(st, id, moduleId) ==
  IF HasClosestConnection(st.modules, moduleId)
    THEN LET potentials == GetPotentialConnectionsResult(st.modules, moduleId, NO_POSITION)
             farthest == potentials[Len(potentials)]
         IN  AddConnectionState(st, id, moduleId, farthest.targetPoint.id,
                                farthest.existingModule.id, farthest.existingPoint.id)
    ELSE st

\* a variant of AutoConnectState that stores the point of the existing
\* module first
AutoConnectState_ExistingFirst(st, id, moduleId) ==
  IF HasClosestConnection(st.modules, moduleId)
    THEN LET closest == GetClosestConnection(st.modules, moduleId)
         IN  AddConnectionState(st, id, closest.existingModule.id, closest.existingPoint.id,
                                moduleId, closest.targetPoint.id)
    ELSE st

\* useConnectionValidator.autoConnect: the state after the call
AutoConnectState(st, id, moduleId) ==
  IF HasClosestConnection(st.modules, moduleId)
    THEN LET closest == GetClosestConnection(st.modules, moduleId)
         IN  AddConnectionState(st, id, moduleId, closest.targetPoint.id,
                                closest.existingModule.id, closest.existingPoint.id)
    ELSE st

\* useConnectionValidator.autoConnect: the value returned
AutoConnectResult(st, id, moduleId) ==
  IF HasClosestConnection(st.modules, moduleId) THEN id ELSE NULL

AutoConnect(moduleId) ==
  /\ ~effectPending
  /\ HasClosestConnection(state.modules, moduleId) => Len(state.connections) <= MaxConnections
  /\ state' = AutoConnectState(state, nextId, moduleId)
  /\ nextId' = IF HasClosestConnection(state.modules, moduleId) THEN nextId + 1 ELSE nextId
  /\ effectPending' = HasClosestConnection(state.modules, moduleId)
  /\ roundTrip' = NoRoundTrip
  /\ Called("autoConnect", << moduleId >>, AutoConnectResult(state, nextId, moduleId))

\* the module lists: those of the validation, and a hub at the origin with a
\* laboratory whose utility point is 0.3 m from the west point of the hub
ModuleListsOfConnect ==
  LET A == PlacedModule(1, "central-hub", <<0, 0, 0>>)
      L == PlacedModule(3, "laboratory", <<-450, 0, 0>>)
  IN  ModuleListsOfValidate \cup { <<A, L>>, <<L, A>> }

\* the ids of the connections of the habitat are those of ConnectionPool:
\* the next id is the first one behind them
InitConnect ==
  /\ \E modules \in ModuleListsOfConnect, connections \in ConnectionListsOfValidate :
       /\ \A i, j \in 1..Len(connections) : i < j => connections[i].id < connections[j].id
       /\ state = [ initialState EXCEPT !.modules = modules,
                                        !.connections = connections,
                                        !.statistics = calculateStatistics(modules) ]
  /\ nextId = Len(ConnectionPool) + 1
  /\ effectPending = FALSE
  /\ lastOp = [ op |-> "mount", args |-> << >>, ret |-> NULL ]
  /\ pre = Snapshot
  /\ roundTrip = NoRoundTrip
  /\ cc = NoCall

\* where the living quarters are 0.2 m from both hubs
ConnectPositionInputs == { <<0, 0, 655>> }

NextConnect ==
  \/ \E moduleId \in PlacedIds \cup { UNKNOWN_ID } : AutoConnect(moduleId)
  \/ \E moduleId \in PlacedIds \cap { 2 }, position \in ConnectPositionInputs :
       MoveModule(moduleId, position)
  \/ AutoValidateEffect

SpecConnect == InitConnect /\ [][NextConnect]_vars

\* C22: autoConnect(m) appends exactly one connection, which joins m, the
\* target point, the existing module and the existing point of the first
\* potential connection of m at its stored position, in this order, and
\* returns its id; when m is not placed or has no potential connection it
\* returns null and the connection list is unchanged.
C22_AutoConnectTakesFirst ==
  [][ lastOp'.op = "autoConnect" =>
        LET m == lastOp'.args[1]
            potentials == GetPotentialConnectionsResult(state.modules, m, NO_POSITION)
        IN  IF HasModule(state.modules, m) /\ potentials # << >>
              THEN /\ lastOp'.ret # NULL
                   /\ lastOp'.ret \notin IdsOf(state)
                   /\ state'.connections
                        = Append(state.connections,
                                 [ id |-> lastOp'.ret,
                                   moduleId1 |-> m,
                                   pointId1 |-> potentials[1].targetPoint.id,
                                   moduleId2 |-> potentials[1].existingModule.id,
                                   pointId2 |-> potentials[1].existingPoint.id ])
              ELSE /\ lastOp'.ret = NULL
                   /\ state'.connections = state.connections ]_vars

\* the living quarters between two hubs were connected to the nearer hub,
\* the one that came later
C22_Witness ==
  /\ lastOp.op = "autoConnect"
  /\ lastOp.ret # NULL
  /\ Len(state.modules) = 3
  /\ lastOp.args[1] = state.modules[2].id
  /\ state.connections[Len(state.connections)].id = lastOp.ret
  /\ state.connections[Len(state.connections)].moduleId2 = state.modules[3].id
  /\ Len(GetPotentialConnectionsResult(state.modules, lastOp.args[1], NO_POSITION)) = 2

\* C29: when autoConnect(m) has returned a connection id, validateHabitat on
\* the resulting state reports no error for that connection, which is
\* stored with the point of m first.
C29_AutoConnectedIsValid ==
  ( lastOp.op = "autoConnect" /\ lastOp.ret # NULL ) =>
    /\ ErrorsOfConnection(validateHabitat(state.modules, state.connections), lastOp.ret)
         = << >>
    /\ \E k \in 1..Len(state.connections) :
         /\ state.connections[k].id = lastOp.ret
         /\ state.connections[k].moduleId1 = lastOp.args[1]
         /\ HasPoint(getWorldConnectionPoints(FindModule(state.modules, lastOp.args[1])),
                     state.connections[k].pointId1)

\* the utility point of the laboratory was connected to a structural point
\* of the hub, a pair that canConnect refuses in the opposite order
C29_Witness ==
  /\ lastOp.op = "autoConnect"
  /\ lastOp.ret # NULL
  /\ FindModule(state.modules, lastOp.args[1]).definitionId = "laboratory"
  /\ state.connections[Len(state.connections)].pointId1 = "utility"
  /\ state.connections[Len(state.connections)].pointId2 = "west"
  /\ "utility" \notin connectionRules("structural")

(***************************************************************************)
(* The module library: a module is added where findOptimalPosition says    *)
(***************************************************************************)
\* spacing, in cm
SPACING == 800

\* useModuleManager.findOptimalPosition; modules is the module list of the
\* state, targetModuleId = NULL is the default argument
findOptimalPosition(modules, definitionId, targetModuleId) ==
  IF Len(modules) = 0 THEN <<0, 0, 0>>
  ELSE IF ~HasDefinition(definitionId) THEN <<0, 0, 0>>
  ELSE LET referencePosition ==
             IF targetModuleId # NULL
               THEN IF HasModule(modules, targetModuleId)
                      THEN FindModule(modules, targetModuleId).position
                      ELSE <<0, 0, 0>>
               ELSE modules[Len(modules)].position
           candidates ==
             << << referencePosition[1] + SPACING, referencePosition[2], referencePosition[3] >>,
                << referencePosition[1] - SPACING, referencePosition[2], referencePosition[3] >>,
                << referencePosition[1], referencePosition[2], referencePosition[3] + SPACING >>,
                << referencePosition[1], referencePosition[2], referencePosition[3] - SPACING >>,
                << referencePosition[1], referencePosition[2] + SPACING, referencePosition[3] >>,
                << referencePosition[1], referencePosition[2] - SPACING, referencePosition[3] >> >>
       IN  snapToGrid(candidates[1], 50)

FindOptimalPositionCall(definitionId, targetModuleId) ==
  /\ ~effectPending
  /\ UNCHANGED << state, nextId, effectPending, roundTrip >>
  /\ Called("findOptimalPosition", << definitionId, targetModuleId >>,
            findOptimalPosition(state.modules, definitionId, targetModuleId))

\* ModuleLibrary.handleAddModule: findOptimalPosition(definitionId), then
\* addModuleAtPosition(definitionId, optimalPosition, true); the position
\* found is recorded as the result. The library may place one module more
\* than the other operations
HandleAddModule(definitionId) ==
  /\ ~effectPending
  /\ HasDefinition(definitionId) => (nextId <= MaxId + 1 /\ Len(state.modules) <= MaxModules)
  /\ state' = AddModuleAtPositionState(state, nextId, definitionId,
                                       findOptimalPosition(state.modules, definitionId, NULL))
  /\ nextId' = IF HasDefinition(definitionId) THEN nextId + 1 ELSE nextId
  /\ effectPending' = HasDefinition(definitionId)
  /\ roundTrip' = NoRoundTrip
  /\ Called("handleAddModule", << definitionId >>,
            findOptimalPosition(state.modules, definitionId, NULL))

\* where a module is moved to: one spacing on the other side of the origin,
\* and off the 0.5 m grid
LibraryMoveInputs == { <<-800, 0, 0>>, <<30, 0, 420>> }

NextLibrary ==
  \/ \E definitionId \in DefinitionIdInputs, targetModuleId \in ModuleIdInputs \cup { NULL } :
       FindOptimalPositionCall(definitionId, targetModuleId)
  \/ \E definitionId \in DefinitionIdInputs : HandleAddModule(definitionId)
  \/ \E moduleId \in PlacedIds, position \in LibraryMoveInputs : MoveModule(moduleId, position)
  \/ \E moduleId \in PlacedIds : RemoveModule(moduleId)
  \/ AutoValidateEffect

SpecLibrary == Init /\ [][NextLibrary]_vars

\* C23: findOptimalPosition(definitionId, target) with a definition of the
\* catalog returns the origin when the habitat is empty; otherwise it returns
\* the reference position plus 8 m on X, snapped to the 0.5 m grid, where the
\* reference is the target when one is given and placed, else the last
\* module of the list.
C23_FirstCandidateOfReference ==
  ( lastOp.op = "findOptimalPosition" /\ HasDefinition(lastOp.args[1]) ) =>
    LET target == lastOp.args[2]
        reference == IF target # NULL /\ HasModule(state.modules, target)
                       THEN FindModule(state.modules, target).position
                       ELSE state.modules[Len(state.modules)].position
    IN  IF state.modules = << >>
          THEN lastOp.ret = <<0, 0, 0>>
          ELSE lastOp.ret = << RoundToGrid(reference[1] + SPACING, 50),
                               RoundToGrid(reference[2], 50),
                               RoundToGrid(reference[3], 50) >>

\* the last module of the habitat is the one that was added
AddedByLibrary ==
  /\ lastOp.op = "handleAddModule"
  /\ HasDefinition(lastOp.args[1])

\* C24: a module added at the position that findOptimalPosition returns is
\* not reported by validateHabitat as colliding with a module that was
\* placed before.
C24_OptimalPositionIsFree ==
  AddedByLibrary =>
    LET report == validateHabitat(state.modules, state.connections)
        added == state.modules[Len(state.modules)].id
    IN  \A k \in 1..Len(report.errors) :
          report.errors[k].type = "collision"
            => ( report.errors[k].moduleIds[1] # added /\ report.errors[k].moduleIds[2] # added )

(***************************************************************************)
(* The editor: the operations on modules and on the selection              *)
(***************************************************************************)
\* the connection of the two first modules of the sample
EditorConnectionInputs == { <<101, "north", 102, "back">> }

\* the hub and the laboratory of the sample
EditorConfigurationInputs == { [ modules |-> SubSeq(MarsResearchStation.modules, 1, 2) ] }

NextEditor ==
  \/ \E definitionId \in LibraryInputs, position \in AddPositionInputs :
       AddModuleAtPosition(definitionId, position)
  \/ \E moduleId \in PlacedIds : CloneModule(moduleId, DEFAULT_OFFSET)
  \/ \E moduleId \in PlacedIds : RemoveModule(moduleId)
  \/ DeleteSelectedModule
  \/ \E moduleId \in ModuleIdInputs, position \in MovePositionInputs :
       MoveModule(moduleId, position)
  \/ \E moduleId \in { state.selectedModuleId, UNKNOWN_ID } \ { NULL },
        rotation \in RotationInputs :
       RotateModule(moduleId, rotation)
  \/ \E moduleId \in PlacedIds : SelectModule(moduleId)
  \/ DeselectModule
  \/ \E c \in EditorConnectionInputs : AddConnection(c[1], c[2], c[3], c[4])
  \/ \E config \in EditorConfigurationInputs : LoadConfiguration(config)
  \/ ResetHabitat
  \/ AutoValidateEffect

SpecEditor == Init /\ [][NextEditor]_vars

\* C25: selectedModuleId is none or the id of a module of the module list.
C25_SelectionIsPlaced ==
  state.selectedModuleId = NULL \/ HasModule(state.modules, state.selectedModuleId)

\* a module was removed while another one was selected
C25_Witness ==
  /\ lastOp.op = "removeModule"
  /\ pre.selectedModuleId # NULL
  /\ pre.selectedModuleId # lastOp.args[1]
  /\ state.selectedModuleId = pre.selectedModuleId
  /\ pre.statistics.totalModules > state.statistics.totalModules

\* C26: moveModule and rotateModule change the position, snapped to the
\* 0.1 m grid, or the rotation of the module with the given id and nothing
\* else: the ids, the definitions and the order of the modules, the
\* connections, the selection and the statistics stay, and no module changes
\* when the id is unknown.
C26_UpdateFrame ==
  [][ lastOp'.op \in { "moveModule", "rotateModule" } =>
        /\ Len(state'.modules) = Len(state.modules)
        /\ \A i \in 1..Len(state.modules) :
             IF state.modules[i].id # lastOp'.args[1]
               THEN state'.modules[i] = state.modules[i]
               ELSE state'.modules[i]
                      = IF lastOp'.op = "moveModule"
                          THEN [ state.modules[i] EXCEPT
                                   !.position = << RoundToGrid(lastOp'.args[2][1], 10),
                                                   RoundToGrid(lastOp'.args[2][2], 10),
                                                   RoundToGrid(lastOp'.args[2][3], 10) >> ]
                          ELSE [ state.modules[i] EXCEPT !.rotation = lastOp'.args[2] ]
        /\ state'.connections = state.connections
        /\ state'.selectedModuleId = state.selectedModuleId
        /\ state'.statistics = state.statistics ]_vars

\* the first of two modules was moved off its position while a module was
\* selected and a connection existed
C26_Witness ==
  /\ lastOp.op = "moveModule"
  /\ Len(state.modules) = 2
  /\ state.modules[1].id = lastOp.args[1]
  /\ state.modules[1].position # lastOp.args[2]
  /\ state.modules[1].position # state.modules[2].position
  /\ state.selectedModuleId # NULL
  /\ state.connections # << >>

(***************************************************************************)
(* The reachability walk of validateHabitat, one iteration of its loop at  *)
(* a time. cc holds the module list and the connection list given to       *)
(* validateHabitat, the position in the code (pc), the locals connected    *)
(* and toVisit, and the ids given to connected.add, in the order of the    *)
(* calls (added).                                                          *)
(***************************************************************************)
\* the ends of the connections: a connection and its opposite, a cycle over
\* three modules, self-connections, and connections to a module that was
\* removed
WalkConnectionPool ==
  LET Connection(moduleId1, moduleId2) == [ moduleId1 |-> moduleId1, moduleId2 |-> moduleId2 ]
  IN  { Connection(1, 2), Connection(2, 1), Connection(2, 3), Connection(3, 1),
        Connection(1, 1), Connection(2, 2), Connection(2, GHOST_ID), Connection(GHOST_ID, 3) }

\* the connection lists of up to MaxConnections + 1 connections
WalkConnectionLists ==
  UNION { [ 1..n -> WalkConnectionPool ] : n \in 0..(MaxConnections + 1) }

\* the module lists
WalkModuleLists ==
  LET Placed(id) == [ id |-> id ]
  IN  { << >>, << Placed(1) >>, << Placed(1), Placed(2) >>,
        << Placed(1), Placed(2), Placed(3) >>, << Placed(3), Placed(2), Placed(1) >> }

InitWalk ==
  /\ HabitatIdle
  /\ \E modules \in WalkModuleLists, connections \in WalkConnectionLists :
       cc = [ modules |-> modules, connections |-> connections, pc |-> "start",
              connected |-> {}, toVisit |-> << >>, added |-> << >> ]

\* if (modules.length > 1) { const connected = new Set();
\* const toVisit = [modules[0].id]; ...
WalkStartState(w) ==
  IF Len(w.modules) > 1
    THEN [ w EXCEPT !.pc = "loop", !.connected = {}, !.toVisit = << w.modules[1].id >> ]
    ELSE [ w EXCEPT !.pc = "done" ]

\* a variant of WalkIterationState without `if (connected.has(currentId))
\* continue`
WalkIterationState_NoSkip(w) ==
  LET currentId == w.toVisit[Len(w.toVisit)]
      rest == SubSeq(w.toVisit, 1, Len(w.toVisit) - 1)
  IN  [ w EXCEPT !.connected = w.connected \cup { currentId },
                 !.added = Append(w.added, currentId),
                 !.toVisit = rest \o Pushed(w.connections, w.connected \cup { currentId },
                                            currentId, 1) ]

\* one iteration of while (toVisit.length > 0)
WalkIterationState(w) ==
  LET currentId == w.toVisit[Len(w.toVisit)]
      rest == SubSeq(w.toVisit, 1, Len(w.toVisit) - 1)
  IN  IF currentId \in w.connected
        THEN [ w EXCEPT !.toVisit = rest ]
        ELSE [ w EXCEPT !.connected = w.connected \cup { currentId },
                        !.added = Append(w.added, currentId),
                        !.toVisit = rest \o Pushed(w.connections,
                                                   w.connected \cup { currentId },
                                                   currentId, 1) ]

WalkStart ==
  /\ cc.pc = "start"
  /\ cc' = WalkStartState(cc)
  /\ UNCHANGED << state, nextId, effectPending, lastOp, pre, roundTrip >>

WalkIteration ==
  /\ cc.pc = "loop"
  /\ Len(cc.toVisit) > 0
  /\ cc' = WalkIterationState(cc)
  /\ UNCHANGED << state, nextId, effectPending, lastOp, pre, roundTrip >>

\* toVisit.length > 0 is false: the loop is left
WalkExit ==
  /\ cc.pc = "loop"
  /\ Len(cc.toVisit) = 0
  /\ cc' = [ cc EXCEPT !.pc = "done" ]
  /\ UNCHANGED << state, nextId, effectPending, lastOp, pre, roundTrip >>

NextWalk ==
  \/ WalkStart
  \/ WalkIteration
  \/ WalkExit

\* validateHabitat is synchronous code: a step that can be taken is taken
SpecWalk == InitWalk /\ [][NextWalk]_vars /\ WF_vars(NextWalk)

\* C27: for every module list and every connection list, with cycles,
\* duplicates, self-connections and connections to removed modules, the walk
\* of validateHabitat ends, no id is given to connected.add twice, and the
\* set it ends with is the one the report is computed from.
C27_WalkTerminates ==
  /\ <>( cc.pc = "done" )
  /\ []( \A i, j \in 1..Len(cc.added) : cc.added[i] = cc.added[j] => i = j )
  /\ []( ( cc.pc = "done" /\ Len(cc.modules) > 1 )
           => /\ cc.connected = Walk(cc.connections, {}, << cc.modules[1].id >>)
              /\ cc.connected = { cc.added[i] : i \in 1..Len(cc.added) } )

\* the walk has ended on a list whose first connection is there twice and
\* whose third connection joins a module to itself
C27_Witness ==
  /\ cc.pc = "done"
  /\ Len(cc.modules) = 3
  /\ Len(cc.connections) = 3
  /\ cc.connections[1] = cc.connections[2]
  /\ cc.connections[1].moduleId1 = cc.modules[1].id
  /\ cc.connections[3].moduleId2 = cc.connections[3].moduleId1
  /\ Len(cc.added) = 2

(***************************************************************************)
(* The two reachability computations on a habitat that is already built    *)
(***************************************************************************)
\* useConnectionValidator.isModuleConnected; its loop is the loop of
\* validateHabitat started from moduleId
isModuleConnected(modules, connections, moduleId) ==
  IF Len(modules) <= 1 THEN TRUE
  ELSE LET visited == Walk(connections, {}, << moduleId >>)
       IN  Cardinality(visited) = Len(modules)

IsModuleConnectedCall(moduleId) ==
  /\ ~effectPending
  /\ UNCHANGED << state, nextId, effectPending, roundTrip >>
  /\ Called("isModuleConnected", << moduleId >>,
            isModuleConnected(state.modules, state.connections, moduleId))

NextReach ==
  \/ \E moduleId \in PlacedIds : IsModuleConnectedCall(moduleId)
  \/ ValidateAndUpdateErrorsCall

SpecReach == InitValidate /\ [][NextReach]_vars

\* C28: in a habitat of two or more modules validateHabitat reports no
\* disconnection warning exactly when isModuleConnected(m) is true for every
\* module m of the habitat, whatever the connections reference.
C28_ReachabilityAgrees ==
  Len(state.modules) >= 2 =>
    LET report == validateHabitat(state.modules, state.connections)
        Disconnected(warning) == warning.type = "disconnected_modules"
    IN  ( SelectSeq(report.warnings, Disconnected) = << >> )
          <=> \A moduleId \in PlacedIds :
                isModuleConnected(state.modules, state.connections, moduleId)

(***************************************************************************)
(* Two unrotated modules mated face to face along Z. cc holds the gap      *)
(* between the two mating points, in cm, and the two mating points.        *)
(***************************************************************************)
\* a definition and its structural point that looks along +Z
LowerInputs ==
  { <<"central-hub", "north">>, <<"living-quarters", "front">>, <<"laboratory", "front">>,
    <<"recreation", "front">> }

\* a definition and its structural point that looks along -Z
UpperInputs ==
  { <<"living-quarters", "back">>, <<"central-hub", "south">>, <<"airlock", "inner">>,
    <<"storage", "back">> }

\* the gaps: contact, inside the collision buffer, at the buffer, between
\* the buffer and the maximal connection distance, at it, and beyond
GapInputs == { 0, 10, 19, 20, 30, 50, 51, 60 }

\* position = [0, 0, z] of the upper module for which its point is gap away
\* from the point of the lower module, which is at the origin
MatedPosition(lower, upper, gap) ==
  LET point1 == FindPoint(FindDefinition(lower[1]).connectionPoints, lower[2])
      point2 == FindPoint(FindDefinition(upper[1]).connectionPoints, upper[2])
  IN  << 0, 0, point1.position[3] + gap - point2.position[3] >>

InitMating ==
  /\ \E lower \in LowerInputs, upper \in UpperInputs, gap \in GapInputs, lowerFirst \in BOOLEAN :
       LET module1 == PlacedModule(1, lower[1], <<0, 0, 0>>)
           module2 == PlacedModule(2, upper[1], MatedPosition(lower, upper, gap))
           connection == IF lowerFirst
                           THEN [ id |-> 1, moduleId1 |-> 1, pointId1 |-> lower[2],
                                  moduleId2 |-> 2, pointId2 |-> upper[2] ]
                           ELSE [ id |-> 1, moduleId1 |-> 2, pointId1 |-> upper[2],
                                  moduleId2 |-> 1, pointId2 |-> lower[2] ]
           modules == IF lowerFirst THEN << module1, module2 >> ELSE << module2, module1 >>
       IN  /\ state = [ initialState EXCEPT !.modules = modules,
                                            !.connections = << connection >>,
                                            !.statistics = calculateStatistics(modules) ]
           /\ cc = [ gap |-> gap, lower |-> lower, upper |-> upper ]
  /\ nextId = 1
  /\ effectPending = FALSE
  /\ lastOp = [ op |-> "mount", args |-> << >>, ret |-> NULL ]
  /\ pre = Snapshot
  /\ roundTrip = NoRoundTrip

NextMating == ValidateAndUpdateErrorsCall

SpecMating == InitMating /\ [][NextMating]_vars

\* the errors of a report that tell of a collision
CollisionsOf(report) ==
  LET Keep(error) == error.type = "collision"
  IN  SelectSeq(report.errors, Keep)

\* C30: for two unrotated catalog modules mated along Z at the same X and Y,
\* a gap between the mating points below the collision buffer, contact
\* included, gives a collision error for the pair while the connection
\* itself is accepted; the report is free of errors only for gaps from the
\* collision buffer to the maximal connection distance, and it is for every
\* gap strictly between the two.
C30_MatedPairCollides ==
  Validated =>
    LET report == lastOp.ret
        point1 == FindPoint(getWorldConnectionPoints(FindModule(state.modules, 1)),
                            cc.lower[2])
        point2 == FindPoint(getWorldConnectionPoints(FindModule(state.modules, 2)),
                            cc.upper[2])
    IN  /\ distance3D(point1.worldPosition, point2.worldPosition) = cc.gap * cc.gap
        /\ cc.gap < COLLISION_BUFFER =>
             /\ Len(CollisionsOf(report)) = 1
             /\ ErrorsOfConnection(report, state.connections[1].id) = << >>
             /\ canConnect(point1, point2).canConnect
        /\ report.errors = << >>
             => ( COLLISION_BUFFER <= cc.gap /\ cc.gap <= MAX_CONNECTION_DISTANCE )
        /\ ( COLLISION_BUFFER < cc.gap /\ cc.gap < MAX_CONNECTION_DISTANCE )
             => report.errors = << >>

\* the north point of the hub and the back point of the living quarters
\* touch: the connection is accepted and the pair collides
C30_Witness ==
  /\ Validated
  /\ cc.gap = 0
  /\ cc.lower = <<"central-hub", "north">>
  /\ cc.upper = <<"living-quarters", "back">>
  /\ Len(lastOp.ret.errors) = 1
  /\ lastOp.ret.errors[1].type = "collision"

====
